---- MODULE Spec2Model ----
(***************************************************************************)
(* Model of the retrieval pipeline of documind: the vector-store lifecycle *)
(* of RAGPipeline (rag_pipeline.py), its query engine, and the evaluation   *)
(* harnesses (rag_pipeline.py, evaluation.py, retrieval_evaluation.py,      *)
(* llm_evaluation.py).  The index service, the embedding provider and the   *)
(* language model are the environment: their answers and their failures are *)
(* inputs of the actions.                                                   *)
(***************************************************************************)
EXTENDS Integers, Sequences, FiniteSets, TLC

VARIABLES
  coll,          \* the named collection in the index service
  vector_store,  \* RAGPipeline.vector_store: "None" or "Qdrant"
  qa_chain,      \* RAGPipeline.qa_chain: "None", "bound" (its retriever is
                 \* self.vector_store) or "stale" (its retriever is a store
                 \* object that self.vector_store no longer refers to)
  dataDir,       \* what process_directory("data") yields
  world,         \* the environment the specification runs in:
                 \* indexFaults = the index service's administrative calls
                 \* (get_collections, get_collection, delete_collection) may
                 \* fail; bulk = record lists beyond the batch limit occur
  feedback_file, \* the content of FeedbackStorage.feedback_file on disk
  storages,      \* the FeedbackStorage instances that write the file in steps:
                 \* each one's position in its call, the data it loaded, the
                 \* entry it is adding and the calls it completed
  last           \* the last call: its arguments, the state before it, its outcome

vars == <<coll, vector_store, qa_chain, dataDir, world, feedback_file, storages,
          last>>

----------------------------------------------------------------------------
(* Bounds of the model                                                      *)

MaxRecs == 2        \* longest enumerated record list
MaxPoints == 3      \* largest collection built from enumerated lists
MaxQuestions == 2   \* longest question list of a harness batch
MaxRetrieved == 2   \* longest scored list of retrieved chunks
MaxFiles == 3       \* most entries of a processed directory
chunk_size == 4     \* DocumentProcessor(chunk_size, chunk_overlap), at the
chunk_overlap == 1  \* scale of the modelled texts

(* Program constants                                                        *)

batch_size == 5000  \* create_vector_store: batch_size = 5000
PROVIDER_MAX_BATCH == 5461  \* create_vector_store: "the 5461 limit"
RETRIEVAL_K == 3    \* create_qa_chain: search_kwargs={"k": 3}
PREVIEW_LEN == 200  \* query: doc.page_content[:200]

----------------------------------------------------------------------------
(* Data                                                                     *)

None == "None"

COLLECTION_NAME == "cs_textbooks"

\* Document(page_content, metadata{source, chunk_id}): the chunk records of
\* one two-chunk source, each named by a key
doc1 == "a.txt#0"
doc2 == "a.txt#1"
DocPool == {doc1, doc2}

doc3 == "b.txt#0"

page_content(d) ==
  IF d = doc1 THEN "An algorithm is a procedure"
  ELSE IF d = doc2 THEN "A graph has nodes"
  ELSE "Dynamic Programming"
metadata(d) ==
  IF d = doc3 THEN [source |-> "b.txt", chunk_id |-> 0]
  ELSE [source |-> "a.txt", chunk_id |-> IF d = doc1 THEN 0 ELSE 1]

SeqUpTo(S, n) == UNION {[1..m -> S] : m \in 0..n}

\* a record list one longer than the provider takes in one call
OversizedList == [i \in 1..(PROVIDER_MAX_BATCH + 1) |-> doc1]

RecordLists ==
  SeqUpTo(DocPool, MaxRecs) \cup (IF world.bulk THEN {OversizedList} ELSE {})

\* the optional `documents` argument: omitted (None) or a list
NoDocuments == [given |-> FALSE, docs |-> <<>>]
SomeDocuments(ds) == [given |-> TRUE, docs |-> ds]
OptRecordLists == {NoDocuments} \cup {SomeDocuments(ds) : ds \in RecordLists}

DataDirs == {<<>>, <<doc1, doc2>>}

Absent == [exists |-> FALSE, points |-> <<>>]
Collection(ps) == [exists |-> TRUE, points |-> ps]

PointCount(c) == Len(c.points)

\* the state space is kept finite by refusing to grow a collection past
\* MaxPoints, the oversized list alone excepted
WithinBounds(c) == PointCount(c) <= MaxPoints \/ c.points = OversizedList

Min(a, b) == IF a <= b THEN a ELSE b

\* The telemetry file of FeedbackStorage.  A file is missing, holds text that
\* is not JSON, or holds a JSON value: an array, or an object of which only
\* the keys "feedback" and "interactions" matter (has = the ones present).
FileContent(kind, has, feedback, interactions) ==
  [kind |-> kind, has |-> has, feedback |-> feedback,
   interactions |-> interactions]

NoFile == FileContent("missing", {}, <<>>, <<>>)
NotJSON == FileContent("invalid", {}, <<>>, <<>>)
JSONArray == FileContent("array", {}, <<>>, <<>>)
JSONObject(has, feedback, interactions) ==
  FileContent("object", has, feedback, interactions)

\* json.dump({"feedback": [], "interactions": []}, f)
EmptyStore == JSONObject({"feedback", "interactions"}, <<>>, <<>>)

\* the instances of FeedbackStorage on one file (one per browser session)
Instances == {1, 2}
Idle == [i \in Instances |-> [pc |-> "idle", completed |-> 0]]

----------------------------------------------------------------------------
(* Environment inputs                                                       *)

Faulty == IF world.indexFaults THEN BOOLEAN ELSE {FALSE}

\* createFail: "no"; "early" = the provider fails before the collection is
\* touched; "late" = it fails after the collection was created, before any
\* point of this call was stored
StoreEnvs == [delFail : Faulty, loadFail : Faulty, infoFail : Faulty,
              createFail : {"no", "early", "late"}]

\* the environments of a call that only loads
LoadEnvs == {e \in StoreEnvs : e.createFail = "no" /\ ~e.delFail /\ ~e.infoFail}

NoFault == [delFail |-> FALSE, loadFail |-> FALSE, infoFail |-> FALSE,
            createFail |-> "no"]

----------------------------------------------------------------------------
(* RAGPipeline: vector store lifecycle                                      *)

\* Qdrant.from_documents / Qdrant.add_documents: the list handed over in one
\* call is stored behind what the collection already holds
Upsert_Dedup(c, documents) ==
  Collection(c.points
             \o SelectSeq(documents,
                          LAMBDA d : \A i \in DOMAIN c.points : c.points[i] # d))

Upsert(c, documents) == Collection(c.points \o documents)

create_vector_store_NoEmptyCheck(c, documents, env) ==
  IF env.createFail = "early"
  THEN [raised |-> TRUE, exc |-> "ProviderError", coll |-> c,
        sent |-> <<Len(documents)>>]
  ELSE IF env.createFail = "late"
  THEN [raised |-> TRUE, exc |-> "ProviderError", coll |-> Collection(c.points),
        sent |-> <<Len(documents)>>]
  ELSE [raised |-> FALSE, exc |-> None, coll |-> Upsert(c, documents),
        sent |-> <<Len(documents)>>]

create_vector_store(c, documents, env) ==
  IF documents = <<>>
  THEN [raised |-> TRUE, exc |-> "ValueError", coll |-> c, sent |-> <<>>]
  ELSE IF env.createFail = "early"
  THEN [raised |-> TRUE, exc |-> "ProviderError", coll |-> c,
        sent |-> <<Len(documents)>>]
  ELSE IF env.createFail = "late"
  THEN [raised |-> TRUE, exc |-> "ProviderError", coll |-> Collection(c.points),
        sent |-> <<Len(documents)>>]
  ELSE [raised |-> FALSE, exc |-> None, coll |-> Upsert(c, documents),
        sent |-> <<Len(documents)>>]

load_vector_store_NeverFinds(c, env) == None

load_vector_store(c, env) ==
  IF env.loadFail THEN None
  ELSE IF c.exists THEN "Qdrant" ELSE None

\* initialize_vector_store, force_recreate: delete_collection, any failure of
\* it swallowed
DropCollection_Skipped(c, env) == c

DropCollection(c, env) == IF env.delFail THEN c ELSE Absent

\* initialize_vector_store: a loaded store whose collection reports zero
\* points is given up; a failure of get_collection is swallowed
ZeroPointCheck_Always(loaded, c, env) == None

ZeroPointCheck_Never(loaded, c, env) == loaded

ZeroPointCheck(loaded, c, env) ==
  IF loaded # None /\ ~env.infoFail /\ PointCount(c) = 0 THEN None ELSE loaded

\* qa_chain keeps the store object it was built on
Rebind(chain) == IF chain = None THEN None ELSE "stale"

initialize_vector_store(vs, chain, c, documents, force_recreate, env, dir) ==
  IF force_recreate
  THEN IF ~documents.given
       THEN [outcome |-> "raised", exc |-> "ValueError", vector_store |-> vs,
             qa_chain |-> chain, coll |-> c, sent |-> <<>>]
       ELSE LET dropped == DropCollection(c, env)
                cr == create_vector_store(dropped, documents.docs, env)
            IN IF cr.raised
               THEN [outcome |-> "raised", exc |-> cr.exc, vector_store |-> vs,
                     qa_chain |-> chain, coll |-> cr.coll, sent |-> cr.sent]
               ELSE [outcome |-> "True", exc |-> None, vector_store |-> "Qdrant",
                     qa_chain |-> Rebind(chain), coll |-> cr.coll,
                     sent |-> cr.sent]
  ELSE LET loaded == load_vector_store(c, env)
           checked == ZeroPointCheck(loaded, c, env)
       IN IF checked = None
          THEN LET docs == IF documents.given THEN documents.docs ELSE dir
               IN IF docs # <<>>
                  THEN LET cr == create_vector_store(c, docs, env)
                       IN IF cr.raised
                          THEN [outcome |-> "raised", exc |-> cr.exc,
                                vector_store |-> None,
                                qa_chain |-> Rebind(chain), coll |-> cr.coll,
                                sent |-> cr.sent]
                          ELSE [outcome |-> "True", exc |-> None,
                                vector_store |-> "Qdrant",
                                qa_chain |-> Rebind(chain), coll |-> cr.coll,
                                sent |-> cr.sent]
                  ELSE [outcome |-> "False", exc |-> None,
                        vector_store |-> None, qa_chain |-> Rebind(chain),
                        coll |-> c, sent |-> <<>>]
          ELSE [outcome |-> "True", exc |-> None, vector_store |-> "Qdrant",
                qa_chain |-> Rebind(chain), coll |-> c, sent |-> <<>>]

add_documents(vs, chain, c, documents, env, dir) ==
  IF vs = None
  THEN LET r == initialize_vector_store(vs, chain, c, SomeDocuments(documents),
                                        FALSE, env, dir)
       IN [outcome |-> IF r.outcome = "raised" THEN "raised" ELSE "returned",
           exc |-> r.exc, vector_store |-> r.vector_store,
           qa_chain |-> r.qa_chain, coll |-> r.coll, sent |-> r.sent]
  ELSE IF ~c.exists \/ env.createFail # "no"
       THEN [outcome |-> "raised", exc |-> "ProviderError", vector_store |-> vs,
             qa_chain |-> chain, coll |-> c, sent |-> <<Len(documents)>>]
       ELSE [outcome |-> "returned", exc |-> None, vector_store |-> vs,
             qa_chain |-> chain, coll |-> Upsert(c, documents),
             sent |-> <<Len(documents)>>]

get_vector_store_stats_Unguarded(vs, c, env) ==
  [status |-> "Qdrant vector store active", total_documents |-> PointCount(c),
   collection_name |-> COLLECTION_NAME]

get_vector_store_stats(vs, c, env) ==
  IF vs = None
  THEN [status |-> "No vector store initialized"]
  ELSE IF env.infoFail \/ ~c.exists
       THEN [status |-> "Error getting stats"]
       ELSE [status |-> "Qdrant vector store active",
             total_documents |-> PointCount(c),
             collection_name |-> COLLECTION_NAME]

----------------------------------------------------------------------------
(* RAGPipeline: query engine                                                *)

Questions == {"", "What is an algorithm?", "What is Big O notation?"}

\* what the language model may answer (an empty completion included)
Answers == {"", "An algorithm is a step-by-step procedure. I don't know more."}

\* str(e) of the exception a provider call raises (Exception() prints as "")
Causes == {"", "timeout"}

\* the embedding distance of the entries to a question: a ranking of the
\* chunk records, 1 = nearest
Rankings ==
  {f \in [DocPool -> 1..Cardinality(DocPool)] :
     \A a, b \in DocPool : f[a] = f[b] => a = b}

\* one query's environment: which provider call fails (and how it prints),
\* how the entries rank, what the model answers
QueryEnvs ==
  [fail : {"retrieval", "generation"}, cause : Causes,
   rank : {CHOOSE f \in Rankings : TRUE}, answer : {""}]
  \cup [fail : {"no"}, cause : {""}, rank : Rankings, answer : Answers]

RECURSIVE ByRank(_, _, _)
ByRank(points, rank, r) ==
  IF r > Cardinality(DocPool) THEN <<>>
  ELSE SelectSeq(points, LAMBDA d : rank[d] = r) \o ByRank(points, rank, r + 1)

\* vector_store.similarity_search / the retriever: the k nearest entries,
\* nearest first, entries of equal distance in insertion order
similarity_search(c, rank, k) ==
  LET ranked == ByRank(c.points, rank, 1)
  IN SubSeq(ranked, 1, Min(k, Len(ranked)))

\* create_qa_chain: raises without a store, else builds the chain on it
create_qa_chain(vs) ==
  IF vs = None THEN [raised |-> TRUE, qa_chain |-> None]
  ELSE [raised |-> FALSE, qa_chain |-> "bound"]

Preview(d) ==
  SubSeq(page_content(d), 1, Min(PREVIEW_LEN, Len(page_content(d)))) \o "..."

Source(d) ==
  [content |-> Preview(d), metadata |-> metadata(d),
   source |-> metadata(d).source, chunk_id |-> metadata(d).chunk_id]

ErrorResult(question, cause) ==
  [question |-> question,
   answer |-> "An error occurred while processing your question: " \o cause,
   source_documents |-> <<>>, sources |-> <<>>, num_sources |-> 0,
   error |-> cause]

FormatSources_Reversed(source_documents) ==
  [i \in 1..Len(source_documents) |->
     Source(source_documents[Len(source_documents) + 1 - i])]

FormatSources(source_documents) ==
  [i \in 1..Len(source_documents) |-> Source(source_documents[i])]

Response(question, answer, source_documents) ==
  [question |-> question, answer |-> answer,
   source_documents |-> source_documents,
   sources |-> FormatSources(source_documents),
   num_sources |-> Len(FormatSources(source_documents))]

\* the body of query's try block: the chain retrieves, then generates
RunChain(c, question, env) ==
  IF ~c.exists THEN ErrorResult(question, "Not found: collection")
  ELSE IF env.fail # "no" THEN ErrorResult(question, env.cause)
  ELSE Response(question, env.answer,
                similarity_search(c, env.rank, RETRIEVAL_K))

query(vs, chain, c, question, env) ==
  LET built == IF chain = None THEN create_qa_chain(vs)
               ELSE [raised |-> FALSE, qa_chain |-> chain]
  IN IF built.raised
     THEN [outcome |-> "raised", exc |-> "ValueError", qa_chain |-> chain]
     ELSE [outcome |-> "returned", exc |-> None, qa_chain |-> built.qa_chain,
           result |-> RunChain(c, question, env)]

----------------------------------------------------------------------------
(* Evaluation harnesses                                                     *)

\* a quotient kept exact: num / den
Ratio(num, den) == [num |-> num, den |-> den]
Zero == Ratio(0, 1)

RECURSIVE SumOver(_, _)
SumOver(f, n) == IF n = 0 THEN 0 ELSE f[n] + SumOver(f, n - 1)

LessEq(a, b) == a.num * b.den <= b.num * a.den
Plus(a, b) == Ratio(a.num * b.den + b.num * a.den, a.den * b.den)
DivideBy(a, n) == Ratio(a.num, a.den * n)

RECURSIVE SumRatios(_, _)
SumRatios(f, n) == IF n = 0 THEN Zero ELSE Plus(SumRatios(f, n - 1), f[n])

\* str.lower, on ASCII text
UpperCase == "ABCDEFGHIJKLMNOPQRSTUVWXYZ"
LowerCase == "abcdefghijklmnopqrstuvwxyz"

LowerMap ==
  [ch \in {SubSeq(UpperCase, i, i) : i \in 1..Len(UpperCase)} |->
     LET i == CHOOSE i \in 1..Len(UpperCase) : SubSeq(UpperCase, i, i) = ch
     IN SubSeq(LowerCase, i, i)]

LowerChar(ch) == IF ch \in DOMAIN LowerMap THEN LowerMap[ch] ELSE ch

RECURSIVE lower(_)
lower(s) ==
  IF Len(s) <= 1 THEN LowerChar(s)
  ELSE LET half == Len(s) \div 2
       IN lower(SubSeq(s, 1, half)) \o lower(SubSeq(s, half + 1, Len(s)))

\* Python's `k in s` on strings
Contains(k, s) ==
  \E i \in 1..(Len(s) - Len(k) + 1) : SubSeq(s, i, i + Len(k) - 1) = k

\* Python's truth value of r.get("error"): a missing key and "" are false
HasError(r) == "error" \in DOMAIN r /\ r.error # ""

\* the question list of a batch: the first questions of a fixed list
TestQuestions == <<"What is an algorithm?", "", "What is Big O notation?">>
QuestionLists ==
  {SubSeq(TestQuestions, 1, Min(n, Len(TestQuestions))) : n \in 0..MaxQuestions}

\* the environments of a batch, one per question
BatchEnvs ==
  {e \in QueryEnvs :
     \/ e.fail = "retrieval" /\ e.cause = "timeout"
     \/ e.fail = "generation" /\ e.cause = ""
     \/ e.fail = "no" /\ e.answer # ""}

Range(seq) == {seq[i] : i \in DOMAIN seq}

\* the rankings and the model's answers of a harness run: one ranking for
\* each of its questions, one answer for each of them
RunRankings(test_queries) == [Range(test_queries) -> Rankings]
RunAnswers(test_queries) == [Range(test_queries) -> Answers]

\* the loop of simple_evaluation (results = the list built so far): query
\* raising ends it
RECURSIVE RunQueries(_, _, _, _, _, _, _)
RunQueries(vs, chain, c, test_questions, envs, results, i) ==
  IF i > Len(test_questions)
  THEN [raised |-> FALSE, results |-> results, qa_chain |-> chain]
  ELSE LET r == query(vs, chain, c, test_questions[i], envs[i])
       IN IF r.outcome = "raised"
          THEN [raised |-> TRUE, results |-> <<>>, qa_chain |-> chain]
          ELSE RunQueries(vs, r.qa_chain, c, test_questions, envs,
                          Append(results, r.result), i + 1)

simple_evaluation(vs, chain, c, test_questions, envs) ==
  LET run == RunQueries(vs, chain, c, test_questions, envs, <<>>, 1)
      results == run.results
      total_questions == Len(test_questions)
      successful_queries ==
        Cardinality({i \in 1..Len(results) : ~HasError(results[i])})
      sources == SumOver([i \in 1..Len(results) |-> results[i].num_sources],
                         Len(results))
  IN IF run.raised
     THEN [outcome |-> "raised", qa_chain |-> run.qa_chain]
     ELSE [outcome |-> "returned", qa_chain |-> run.qa_chain,
           evaluation |->
             [total_questions |-> total_questions,
              successful_queries |-> successful_queries,
              success_rate |-> IF total_questions > 0
                               THEN Ratio(successful_queries, total_questions)
                               ELSE Zero,
              average_sources_retrieved |->
                IF results # <<>> THEN Ratio(sources, total_questions)
                ELSE Zero,
              results |-> results]]

\* question_data.get(key, default)
Get(question_data, key, default) ==
  IF key \in DOMAIN question_data THEN question_data[key] ELSE default

\* RAGEvaluator.keyword_relevance_score
keyword_relevance_score(answer, keywords) ==
  IF keywords = <<>> THEN Zero
  ELSE Ratio(Cardinality({i \in DOMAIN keywords :
                            Contains(lower(keywords[i]), lower(answer))}),
             Len(keywords))

\* RAGEvaluator.evaluate_single_question: query inside try/except (the
\* timing and the answer-quality metrics are left out)
evaluate_single_question(vs, chain, c, question_data, env) ==
  LET question == question_data.question
      expected_keywords == Get(question_data, "expected_keywords", <<>>)
      category == Get(question_data, "category", "general")
      r == query(vs, chain, c, question, env)
  IN IF r.outcome = "raised"
     THEN [qa_chain |-> chain,
           evaluation |-> [question |-> question, answer |-> "",
                           category |-> category,
                           num_sources |-> 0, has_sources |-> FALSE,
                           keyword_relevance |-> Zero,
                           expected_keywords |-> expected_keywords,
                           success |-> FALSE,
                           error |-> "Vector store not initialized"]]
     ELSE [qa_chain |-> r.qa_chain,
           evaluation |-> [question |-> question, answer |-> r.result.answer,
                           category |-> category,
                           num_sources |-> r.result.num_sources,
                           has_sources |-> r.result.num_sources > 0,
                           keyword_relevance |->
                             keyword_relevance_score(r.result.answer,
                                                     expected_keywords),
                           expected_keywords |-> expected_keywords,
                           success |-> ~HasError(r.result),
                           error |-> IF "error" \in DOMAIN r.result
                                     THEN r.result.error ELSE None]]

RECURSIVE EvaluateAll(_, _, _, _, _, _, _)
EvaluateAll(vs, chain, c, test_questions, envs, results, i) ==
  IF i > Len(test_questions) THEN results
  ELSE LET e == evaluate_single_question(vs, chain, c, test_questions[i],
                                         envs[i])
       IN EvaluateAll(vs, e.qa_chain, c, test_questions, envs,
                      Append(results, e.evaluation), i + 1)

\* run_evaluation: the category breakdown
category_breakdown_FirstOnly(results) ==
  [cat \in {results[1].category} |->
     [count |-> 1, success |-> IF results[1].success THEN 1 ELSE 0,
      avg_sources |-> Ratio(results[1].num_sources, 1),
      success_rate |-> Ratio(IF results[1].success THEN 1 ELSE 0, 1)]]

category_breakdown(results) ==
  [cat \in {results[i].category : i \in DOMAIN results} |->
     LET of == {i \in DOMAIN results : results[i].category = cat}
         count == Cardinality(of)
         success == Cardinality({i \in of : results[i].success})
         sources == SumOver([i \in DOMAIN results |->
                               IF i \in of THEN results[i].num_sources ELSE 0],
                            Len(results))
     IN [count |-> count, success |-> success,
         avg_sources |-> Ratio(sources, count),
         success_rate |-> Ratio(success, count)]]

run_evaluation(vs, chain, c, test_questions, envs) ==
  IF test_questions = <<>>
  THEN [error |-> "No test questions available"]
  ELSE LET results == EvaluateAll(vs, chain, c, test_questions, envs, <<>>, 1)
           total_questions == Len(results)
           successful_queries ==
             Cardinality({i \in 1..Len(results) : results[i].success})
       IN [total_questions |-> total_questions,
           successful_queries |-> successful_queries,
           success_rate |-> Ratio(successful_queries, total_questions),
           avg_sources_retrieved |->
             Ratio(SumOver([i \in DOMAIN results |-> results[i].num_sources],
                           total_questions), total_questions),
           avg_keyword_relevance |->
             DivideBy(SumRatios([i \in DOMAIN results |->
                                   results[i].keyword_relevance],
                                total_questions), total_questions),
           category_breakdown |-> category_breakdown(results),
           detailed_results |-> results]

\* evaluation.py main, on a pipeline of its own: initialize_system(), the
\* questions, run_evaluation, save_results, print_summary() without its argument
evaluation_main(c, dir, test_questions, senv, envs) ==
  LET i == initialize_vector_store(None, None, c, NoDocuments, FALSE, senv, dir)
  IN IF i.outcome = "raised"
     THEN [outcome |-> "raised", exc |-> i.exc, coll |-> i.coll,
           saved |-> FALSE]
     ELSE IF i.outcome = "False"
     THEN [outcome |-> "returned", exc |-> None, coll |-> i.coll,
           saved |-> FALSE]
     ELSE [outcome |-> "raised", exc |-> "TypeError", coll |-> i.coll,
           saved |-> TRUE,
           report |-> run_evaluation(i.vector_store, i.qa_chain, i.coll,
                                     [k \in DOMAIN test_questions |->
                                        [question |-> test_questions[k]]],
                                     envs)]

\* retrieval_evaluation.py: the four approaches of evaluate_retrieval_approaches
Approaches ==
  <<[k |-> 3, search_type |-> "similarity"],
    [k |-> 5, search_type |-> "similarity"],
    [k |-> 10, search_type |-> "similarity"],
    [k |-> 5, search_type |-> "mmr"]>>

\* vector_store.max_marginal_relevance_search: k of the fetch_k nearest
\* entries, in the order the diversity ranking gives them
max_marginal_relevance_search(c, rank, mmrRank, k, fetch_k) ==
  LET candidates == ByRank(similarity_search(c, rank, fetch_k), mmrRank, 1)
  IN SubSeq(candidates, 1, Min(k, Len(candidates)))

\* the loop of _evaluate_approach (query_results = the list built so far);
\* failAt = the query whose search raises (0 = none)
RECURSIVE ApproachLoop(_, _, _, _, _, _, _, _)
ApproachLoop(c, test_queries, approach, ranks, mmrRank, failAt, query_results, i) ==
  IF i > Len(test_queries)
  THEN [raised |-> FALSE, query_results |-> query_results]
  ELSE IF i = failAt THEN [raised |-> TRUE, query_results |-> <<>>]
  ELSE LET q == test_queries[i]
           retrieved_docs ==
             IF approach.search_type = "similarity"
             THEN similarity_search(c, ranks[q], approach.k)
             ELSE max_marginal_relevance_search(c, ranks[q], mmrRank,
                                                approach.k, approach.k * 2)
       IN ApproachLoop(c, test_queries, approach, ranks, mmrRank, failAt,
                       Append(query_results,
                              [query |-> q, retrieved_docs |-> retrieved_docs,
                               retrieved_count |-> Len(retrieved_docs)]),
                       i + 1)

_evaluate_approach(c, test_queries, approach, ranks, mmrRank, failAt) ==
  LET loop == ApproachLoop(c, test_queries, approach, ranks, mmrRank, failAt,
                           <<>>, 1)
  IN IF loop.raised THEN [raised |-> TRUE]
     ELSE [raised |-> FALSE, k |-> approach.k,
           search_type |-> approach.search_type,
           query_results |-> loop.query_results,
           total_queries |-> Len(test_queries)]

\* the loop of evaluate_retrieval_approaches; failAt counts the searches of
\* the whole run, approach after approach
RECURSIVE ApproachesFrom(_, _, _, _, _, _, _)
ApproachesFrom(c, test_queries, ranks, mmrRank, failAt, approaches, a) ==
  IF a > Len(Approaches) THEN [raised |-> FALSE, approaches |-> approaches]
  ELSE LET first == (a - 1) * Len(test_queries)
           here == IF failAt > first /\ failAt <= first + Len(test_queries)
                   THEN failAt - first ELSE 0
           r == _evaluate_approach(c, test_queries, Approaches[a], ranks,
                                   mmrRank, here)
       IN IF r.raised THEN [raised |-> TRUE, approaches |-> <<>>]
          ELSE ApproachesFrom(c, test_queries, ranks, mmrRank, failAt,
                              Append(approaches, r), a + 1)

\* retrieval_evaluation.py main, on a pipeline of its own
retrieval_evaluation_main(c, test_queries, senv, ranks, mmrRank, failAt) ==
  IF load_vector_store(c, senv) = None
  THEN [outcome |-> "returned", started |-> FALSE, coll |-> c]
  ELSE LET r == ApproachesFrom(c, test_queries, ranks, mmrRank, failAt, <<>>, 1)
       IN IF r.raised
          THEN [outcome |-> "raised", started |-> TRUE, coll |-> c]
          ELSE [outcome |-> "returned", started |-> TRUE, coll |-> c,
                approaches |-> r.approaches]

\* llm_evaluation.py: the prompt templates of LLMEvaluator.PROMPTS
PROMPTS == <<"detailed", "concise", "structured", "expert">>

\* the loop of _evaluate_single_prompt (query_results = the list built so
\* far): the chain is called outside any try
RECURSIVE PromptLoop(_, _, _, _, _, _, _)
PromptLoop(c, test_queries, ranks, answers, failAt, query_results, i) ==
  IF i > Len(test_queries)
  THEN [raised |-> FALSE, query_results |-> query_results]
  ELSE IF i = failAt THEN [raised |-> TRUE, query_results |-> <<>>]
  ELSE LET q == test_queries[i]
           docs == similarity_search(c, ranks[q], RETRIEVAL_K)
       IN PromptLoop(c, test_queries, ranks, answers, failAt,
                     Append(query_results,
                            [query |-> q, answer |-> answers[q],
                             sources_count |-> Len(docs)]),
                     i + 1)

_evaluate_single_prompt(c, prompt_key, test_queries, ranks, answers, failAt) ==
  LET loop == PromptLoop(c, test_queries, ranks, answers, failAt, <<>>, 1)
  IN IF loop.raised THEN [raised |-> TRUE]
     ELSE [raised |-> FALSE, prompt_key |-> prompt_key,
           query_results |-> loop.query_results,
           total_queries |-> Len(test_queries)]

\* the loop of evaluate_prompts
RECURSIVE PromptsFrom(_, _, _, _, _, _, _)
PromptsFrom(c, test_queries, ranks, answers, failAt, prompt_evaluations, p) ==
  IF p > Len(PROMPTS)
  THEN [raised |-> FALSE, prompt_evaluations |-> prompt_evaluations]
  ELSE LET first == (p - 1) * Len(test_queries)
           here == IF failAt > first /\ failAt <= first + Len(test_queries)
                   THEN failAt - first ELSE 0
           r == _evaluate_single_prompt(c, PROMPTS[p], test_queries, ranks,
                                        answers, here)
       IN IF r.raised THEN [raised |-> TRUE, prompt_evaluations |-> <<>>]
          ELSE PromptsFrom(c, test_queries, ranks, answers, failAt,
                           Append(prompt_evaluations, r), p + 1)

\* llm_evaluation.py main: LLMEvaluator() loads the store (ValueError caught
\* by main when there is none), then evaluate_prompts
llm_evaluation_main(c, test_queries, senv, ranks, answers, failAt) ==
  IF load_vector_store(c, senv) = None
  THEN [outcome |-> "returned", started |-> FALSE, coll |-> c]
  ELSE LET r == PromptsFrom(c, test_queries, ranks, answers, failAt, <<>>, 1)
       IN IF r.raised
          THEN [outcome |-> "raised", started |-> TRUE, coll |-> c]
          ELSE [outcome |-> "returned", started |-> TRUE, coll |-> c,
                prompt_evaluations |-> r.prompt_evaluations]

----------------------------------------------------------------------------
(* Actions                                                                  *)

Init ==
  /\ coll = Absent
  /\ vector_store = None
  /\ qa_chain = None
  /\ dataDir \in DataDirs
  /\ world = [indexFaults |-> FALSE, bulk |-> FALSE]
  /\ feedback_file = EmptyStore
  /\ storages = Idle
  /\ last = [op |-> "__init__"]

InitializeVectorStore ==
  \E documents \in OptRecordLists, force_recreate \in BOOLEAN, env \in StoreEnvs :
    LET r == initialize_vector_store(vector_store, qa_chain, coll, documents,
                                     force_recreate, env, dataDir)
    IN /\ WithinBounds(r.coll)
       /\ coll' = r.coll
       /\ vector_store' = r.vector_store
       /\ qa_chain' = r.qa_chain
       /\ last' = [op |-> "initialize_vector_store", documents |-> documents,
                   force_recreate |-> force_recreate,
                   pre |-> coll, outcome |-> r.outcome, exc |-> r.exc,
                   sent |-> r.sent]
       /\ UNCHANGED <<dataDir, world, feedback_file, storages>>

AddDocuments ==
  \E documents \in RecordLists, env \in StoreEnvs :
    LET r == add_documents(vector_store, qa_chain, coll, documents, env, dataDir)
    IN /\ WithinBounds(r.coll)
       /\ coll' = r.coll
       /\ vector_store' = r.vector_store
       /\ qa_chain' = r.qa_chain
       /\ last' = [op |-> "add_documents", documents |-> documents,
                   pre |-> coll, preStore |-> vector_store,
                   outcome |-> r.outcome, exc |-> r.exc, sent |-> r.sent]
       /\ UNCHANGED <<dataDir, world, feedback_file, storages>>

\* app.py auto_initialize_system: rag_pipeline.vector_store = load_vector_store()
LoadVectorStore ==
  \E env \in StoreEnvs :
    /\ vector_store' = load_vector_store(coll, env)
    /\ qa_chain' = Rebind(qa_chain)
    /\ last' = [op |-> "load_vector_store", pre |-> coll,
                outcome |-> "returned"]
    /\ UNCHANGED <<coll, dataDir, world, feedback_file, storages>>

GetVectorStoreStats ==
  \E env \in StoreEnvs :
    /\ last' = [op |-> "get_vector_store_stats", pre |-> coll,
                outcome |-> "returned", infoFail |-> env.infoFail,
                result |-> get_vector_store_stats(vector_store, coll, env)]
    /\ UNCHANGED <<coll, vector_store, qa_chain, dataDir, world, feedback_file, storages>>

Query ==
  \E question \in Questions, env \in QueryEnvs :
    LET r == query(vector_store, qa_chain, coll, question, env)
    IN /\ qa_chain' = r.qa_chain
       /\ last' = [op |-> "query", question |-> question, env |-> env,
                   pre |-> coll, preStore |-> vector_store,
                   preChain |-> qa_chain, outcome |-> r.outcome,
                   exc |-> r.exc,
                   result |-> IF r.outcome = "returned" THEN r.result
                              ELSE [question |-> question]]
       /\ UNCHANGED <<coll, vector_store, dataDir, world, feedback_file, storages>>

Next ==
  \/ InitializeVectorStore
  \/ AddDocuments
  \/ LoadVectorStore
  \/ GetVectorStoreStats
  \/ Query

Spec == Init /\ [][Next]_vars

\* the same pipeline with an index service whose administrative calls may fail
InitFaults ==
  /\ coll = Absent
  /\ vector_store = None
  /\ qa_chain = None
  /\ dataDir \in DataDirs
  /\ world = [indexFaults |-> TRUE, bulk |-> FALSE]
  /\ feedback_file = EmptyStore
  /\ storages = Idle
  /\ last = [op |-> "__init__"]

SpecFaults == InitFaults /\ [][Next]_vars

\* the same pipeline fed record lists beyond the batch limit
InitBulk ==
  /\ coll = Absent
  /\ vector_store = None
  /\ qa_chain = None
  /\ dataDir \in DataDirs
  /\ world = [indexFaults |-> FALSE, bulk |-> TRUE]
  /\ feedback_file = EmptyStore
  /\ storages = Idle
  /\ last = [op |-> "__init__"]

SpecBulk == InitBulk /\ [][Next]_vars

----------------------------------------------------------------------------
(* Harness runs.  A run of evaluation.py, retrieval_evaluation.py or        *)
(* llm_evaluation.py is a process with a pipeline of its own; it shares the *)
(* collection with the application.  simple_evaluation runs on the          *)
(* application's pipeline (app.py run_evaluation).                          *)

StartCollections ==
  {Absent} \cup {Collection(ps) : ps \in SeqUpTo(DocPool, MaxPoints)}

Failing(envs) == {i \in DOMAIN envs : envs[i].fail # "no"}

\* a harness run is one execution of its script, from the state it finds
NotRun == last.op = "__init__"

SimpleEvaluation ==
  /\ NotRun
  /\ \E test_questions \in QuestionLists :
       \E envs \in [1..Len(test_questions) -> BatchEnvs] :
         LET r == simple_evaluation(vector_store, qa_chain, coll, test_questions,
                                    envs)
         IN /\ qa_chain' = r.qa_chain
            /\ last' = [op |-> "simple_evaluation", pre |-> coll,
                        preStore |-> vector_store, preChain |-> qa_chain,
                        test_questions |-> test_questions,
                        failing |-> Failing(envs), outcome |-> r.outcome,
                        evaluation |-> IF r.outcome = "returned" THEN r.evaluation
                                       ELSE [results |-> <<>>]]
            /\ UNCHANGED <<coll, vector_store, dataDir, world, feedback_file, storages>>

EvaluationMain ==
  /\ NotRun
  /\ \E test_questions \in QuestionLists, senv \in StoreEnvs :
       \E envs \in [1..Len(test_questions) -> BatchEnvs] :
         LET r == evaluation_main(coll, dataDir, test_questions, senv, envs)
         IN /\ WithinBounds(r.coll)
            /\ coll' = r.coll
            /\ last' = [op |-> "evaluation.main", pre |-> coll,
                        test_questions |-> test_questions,
                        failing |-> Failing(envs), outcome |-> r.outcome,
                        exc |-> r.exc, saved |-> r.saved,
                        report |-> IF r.saved THEN r.report
                                   ELSE [error |-> "not run"]]
            /\ UNCHANGED <<vector_store, qa_chain, dataDir, world, feedback_file, storages>>

RetrievalEvaluationMain ==
  /\ NotRun
  /\ \E test_queries \in QuestionLists, senv \in LoadEnvs, mmrRank \in Rankings :
       \E ranks \in RunRankings(test_queries),
          failAt \in 0..(Len(Approaches) * Len(test_queries)) :
         LET r == retrieval_evaluation_main(coll, test_queries, senv, ranks,
                                            mmrRank, failAt)
         IN /\ coll' = r.coll
            /\ last' = [op |-> "retrieval_evaluation.main", pre |-> coll,
                        test_questions |-> test_queries,
                        failing |-> IF r.started /\ failAt # 0 THEN {failAt}
                                    ELSE {},
                        outcome |-> r.outcome, started |-> r.started,
                        approaches |-> IF r.started /\ r.outcome = "returned"
                                       THEN r.approaches ELSE <<>>]
            /\ UNCHANGED <<vector_store, qa_chain, dataDir, world, feedback_file, storages>>

LLMEvaluationMain ==
  /\ NotRun
  /\ \E test_queries \in QuestionLists, senv \in LoadEnvs, rank \in Rankings :
       \E answers \in RunAnswers(test_queries),
          failAt \in 0..(Len(PROMPTS) * Len(test_queries)) :
         LET ranks == [q \in Range(test_queries) |-> rank]
             r == llm_evaluation_main(coll, test_queries, senv, ranks, answers,
                                      failAt)
         IN /\ coll' = r.coll
            /\ last' = [op |-> "llm_evaluation.main", pre |-> coll,
                        test_questions |-> test_queries,
                        failing |-> IF r.started /\ failAt # 0 THEN {failAt}
                                    ELSE {},
                        outcome |-> r.outcome, started |-> r.started,
                        prompt_evaluations |->
                          IF r.started /\ r.outcome = "returned"
                          THEN r.prompt_evaluations ELSE <<>>]
            /\ UNCHANGED <<vector_store, qa_chain, dataDir, world, feedback_file, storages>>

InitHarness ==
  /\ coll \in StartCollections
  /\ vector_store \in {None, "Qdrant"}
  /\ qa_chain \in {None, "bound", "stale"}
  /\ qa_chain = "bound" => vector_store = "Qdrant"
  /\ dataDir \in DataDirs
  /\ world = [indexFaults |-> FALSE, bulk |-> FALSE]
  /\ feedback_file = EmptyStore
  /\ storages = Idle
  /\ last = [op |-> "__init__"]

NextHarness ==
  \/ SimpleEvaluation
  \/ EvaluationMain
  \/ RetrievalEvaluationMain
  \/ LLMEvaluationMain

SpecHarness == InitHarness /\ [][NextHarness]_vars

----------------------------------------------------------------------------
(* The read-only calls on a pipeline in any state, against an index service *)
(* whose calls may fail.                                                    *)

\* RAGPipeline.load_vector_store itself: the method assigns nothing, its
\* callers store what it returns
LoadVectorStoreCall ==
  \E env \in LoadEnvs :
    /\ last' = [op |-> "RAGPipeline.load_vector_store", pre |-> coll,
                preStore |-> vector_store, loadFail |-> env.loadFail,
                outcome |-> "returned", result |-> load_vector_store(coll, env)]
    /\ UNCHANGED <<coll, vector_store, qa_chain, dataDir, world, feedback_file, storages>>

InitService ==
  /\ coll \in StartCollections
  /\ vector_store \in {None, "Qdrant"}
  /\ qa_chain \in {None, "bound", "stale"}
  /\ qa_chain = "bound" => vector_store = "Qdrant"
  /\ dataDir \in DataDirs
  /\ world = [indexFaults |-> TRUE, bulk |-> FALSE]
  /\ feedback_file = EmptyStore
  /\ storages = Idle
  /\ last = [op |-> "__init__"]

NextService ==
  \/ LoadVectorStoreCall
  \/ GetVectorStoreStats

SpecService == InitService /\ [][NextService]_vars

----------------------------------------------------------------------------
(* Retrieval evaluation: the metrics of _evaluate_approach and the choice   *)
(* of select_best_approach, as functions of what the searches returned.     *)

\* two of the test queries of evaluate_retrieval_approaches
RetrievalTestQueries ==
  <<"Explain dynamic programming", "What are sorting algorithms?">>

expected_keywords(q) ==
  IF q = "Explain dynamic programming"
  THEN <<"dynamic", "programming", "optimization", "subproblem">>
  ELSE <<"sort", "algorithm", "complexity", "time">>

ScoringDocs == {doc1, doc2, doc3}

\* matches = sum(1 for keyword in expected_keywords if keyword.lower() in content_lower)
Matches_CaseSensitive(doc, q) ==
  Cardinality({j \in DOMAIN expected_keywords(q) :
                 Contains(expected_keywords(q)[j], page_content(doc))})

Matches(doc, q) ==
  LET content_lower == lower(page_content(doc))
  IN Cardinality({j \in DOMAIN expected_keywords(q) :
                    Contains(lower(expected_keywords(q)[j]), content_lower)})

\* the body of the loop of _evaluate_approach after the search
EvaluateRelevance(q, retrieved_docs) ==
  LET n == Len(retrieved_docs)
      matches == [i \in 1..n |-> Matches(retrieved_docs[i], q)]
      relevant_count == Cardinality({i \in 1..n : matches[i] > 0})
      keyword_match_count == SumOver(matches, n)
  IN [query |-> q,
      retrieved_count |-> n,
      relevant_count |-> relevant_count,
      precision |-> IF n # 0 THEN Ratio(relevant_count, n) ELSE Zero,
      avg_keyword_matches |-> IF n # 0 THEN Ratio(keyword_match_count, n)
                              ELSE Zero]

\* _evaluate_approach after its loop: the totals and the overall metrics
overall_metrics(query_results) ==
  LET n == Len(query_results)
      total_relevant ==
        SumOver([i \in 1..n |-> query_results[i].relevant_count], n)
      total_retrieved ==
        SumOver([i \in 1..n |-> query_results[i].retrieved_count], n)
      keyword_matches == [i \in 1..n |-> query_results[i].avg_keyword_matches]
  IN [total_queries |-> n,
      total_retrieved |-> total_retrieved,
      total_relevant |-> total_relevant,
      overall_precision |-> IF total_retrieved > 0
                            THEN Ratio(total_relevant, total_retrieved)
                            ELSE Zero,
      avg_keyword_score |-> IF n # 0
                            THEN DivideBy(SumRatios(keyword_matches, n), n)
                            ELSE Zero]

\* _evaluate_approach on queries whose searches returned retrieved[i]
ScoreApproach(test_queries, retrieved) ==
  LET query_results ==
        [i \in 1..Len(test_queries) |->
           EvaluateRelevance(test_queries[i], retrieved[i])]
  IN [query_results |-> query_results,
      overall_metrics |-> overall_metrics(query_results)]

EvaluateApproachMetrics ==
  /\ NotRun
  /\ \E n \in 0..Len(RetrievalTestQueries) :
       \E retrieved \in [1..n -> SeqUpTo(ScoringDocs, MaxRetrieved)] :
         LET test_queries == SubSeq(RetrievalTestQueries, 1, n)
         IN last' = [op |-> "_evaluate_approach", test_queries |-> test_queries,
                     retrieved |-> retrieved,
                     result |-> ScoreApproach(test_queries, retrieved)]
  /\ UNCHANGED <<coll, vector_store, qa_chain, dataDir, world, feedback_file, storages>>

\* the names evaluate_retrieval_approaches gives its approaches
ApproachNames ==
  <<"Semantic Search (k=3)", "Semantic Search (k=5) - CURRENT",
    "Semantic Search (k=10)", "MMR Search (k=5)">>

\* overall metrics an approach can end with
MetricPool ==
  {[overall_precision |-> Ratio(1, 2), avg_keyword_score |-> Ratio(1, 2)],
   [overall_precision |-> Ratio(0, 1), avg_keyword_score |-> Ratio(5, 3)],
   [overall_precision |-> Ratio(1, 1), avg_keyword_score |-> Ratio(1, 1)],
   [overall_precision |-> Ratio(0, 1), avg_keyword_score |-> Ratio(0, 1)]}

\* score = overall_precision * 0.7 + avg_keyword_score * 0.3
CombinedScore(metrics) ==
  Plus(Ratio(7 * metrics.overall_precision.num,
             10 * metrics.overall_precision.den),
       Ratio(3 * metrics.avg_keyword_score.num,
             10 * metrics.avg_keyword_score.den))

GreaterOrEqual(a, b) == LessEq(b, a)

\* `score > best_score`
Greater(a, b) == ~LessEq(a, b)

\* the loop of select_best_approach
RECURSIVE BestApproachFrom(_, _, _, _)
BestApproachFrom(approaches, i, best_approach, best_score) ==
  IF i > Len(approaches)
  THEN [best_approach |-> best_approach, best_score |-> best_score]
  ELSE LET score == CombinedScore(approaches[i].overall_metrics)
       IN IF Greater(score, best_score)
          THEN BestApproachFrom(approaches, i + 1, approaches[i].name, score)
          ELSE BestApproachFrom(approaches, i + 1, best_approach, best_score)

\* best_approach["name"] with best_approach None is a TypeError
select_best_approach(approaches) ==
  LET best == BestApproachFrom(approaches, 1, None, Ratio(-1, 1))
  IN IF best.best_approach = None
     THEN [outcome |-> "raised", exc |-> "TypeError"]
     ELSE [outcome |-> "returned", exc |-> None,
           approaches |->
             [i \in 1..Len(approaches) |->
                [name |-> approaches[i].name,
                 overall_metrics |-> approaches[i].overall_metrics,
                 combined_score |->
                   CombinedScore(approaches[i].overall_metrics)]],
           best_approach |-> best.best_approach,
           best_score |-> best.best_score]

SelectBestApproach ==
  /\ NotRun
  /\ \E n \in 0..Len(ApproachNames) :
       \E metrics \in [1..n -> MetricPool] :
         LET approaches == [i \in 1..n |-> [name |-> ApproachNames[i],
                                            overall_metrics |-> metrics[i]]]
         IN last' = [op |-> "select_best_approach", approaches |-> approaches,
                     result |-> select_best_approach(approaches)]
  /\ UNCHANGED <<coll, vector_store, qa_chain, dataDir, world, feedback_file, storages>>

InitScoring ==
  /\ coll = Absent
  /\ vector_store = None
  /\ qa_chain = None
  /\ dataDir = <<>>
  /\ world = [indexFaults |-> FALSE, bulk |-> FALSE]
  /\ feedback_file = EmptyStore
  /\ storages = Idle
  /\ last = [op |-> "__init__"]

NextRetrievalScoring ==
  \/ EvaluateApproachMetrics
  \/ SelectBestApproach

SpecRetrievalScoring == InitScoring /\ [][NextRetrievalScoring]_vars

----------------------------------------------------------------------------
(* Prompt evaluation: _score_answer, the metrics of one answer and the      *)
(* choice of select_best_prompt, as functions of the answers generated.     *)

RECURSIVE Repeat(_, _)
Repeat(w, n) == IF n = 0 THEN "" ELSE w \o Repeat(w, n - 1)

\* len(answer.split()): the maximal runs of non-blank characters
WordCount(s) ==
  Cardinality({i \in 1..Len(s) :
                 /\ SubSeq(s, i, i) # " "
                 /\ i = 1 \/ SubSeq(s, i - 1, i - 1) = " "})

\* len(answer.split('.'))
SentenceParts(s) == Cardinality({i \in 1..Len(s) : SubSeq(s, i, i) = "."}) + 1

\* any(phrase in text for phrase in phrases)
AnyIn(phrases, text) == \E i \in DOMAIN phrases : Contains(phrases[i], text)

\* three of the test queries of evaluate_prompts, and one whose expected
\* qualities hold "algorithm" itself
ScoringQueries ==
  {"What is the Floyd-Warshall algorithm?", "Explain dynamic programming",
   "What is reinforcement learning?", "What is quicksort?"}

expected_qualities(q) ==
  CASE q = "What is the Floyd-Warshall algorithm?"
         -> <<"algorithm_name", "purpose", "complexity">>
    [] q = "Explain dynamic programming" -> <<"definition", "approach", "examples">>
    [] q = "What is reinforcement learning?" -> <<"honest_unknown">>
    [] OTHER -> <<"algorithm", "definition", "examples">>

topic(q) ==
  IF q = "What is reinforcement learning?" THEN "not_in_dataset" ELSE "algorithms"

\* answers a chain can give: none, admissions of ignorance in several
\* wordings, short, medium and long answers
AnswerPool ==
  {"",
   "I don't know based on the provided context.",
   "I do not know.",
   "I don't have that information",
   "It is an algorithm.",
   "Reinforcement learning is an algorithm. It learns. Rewards guide it.",
   "The algorithm runs in time. " \o Repeat("It is fast. ", 7),
   "It is, for example, dynamic. " \o Repeat("go ", 30),
   Repeat("like this time. ", 34)}

\* `x in list`: equality with an element
InList(x, list) == \E i \in DOMAIN list : list[i] = x

\* `x in list` read as "some element names x"
InList_BySubstring(x, list) == \E i \in DOMAIN list : Contains(x, list[i])

\* max(0, min(10, score)), in tenths
Clamp_Unbounded(score) == score

Clamp(score) == IF score < 0 THEN 0 ELSE IF score > 100 THEN 100 ELSE score

\* the phrases _score_answer takes as an admission of ignorance
ScoringAdmissions == <<"don't know", "cannot", "not contain">>

\* the phrases _evaluate_single_prompt reports as has_unknown_admission
ReportedAdmissions ==
  <<"don't know", "do not know", "cannot", "not contain", "don't have">>

\* the score in tenths (5.0 = 50)
_score_answer(answer, q) ==
  LET answer_lower == lower(answer)
      words == WordCount(answer)
      base == 50
      adjusted ==
        IF topic(q) = "not_in_dataset"
        THEN IF AnyIn(ScoringAdmissions, answer_lower) THEN base + 50
             ELSE base - 30
        ELSE base
             + (IF /\ InList("algorithm", expected_qualities(q))
                   /\ AnyIn(<<"algorithm", "complexity", "time">>, answer_lower)
                THEN 20 ELSE 0)
             + (IF InList("definition", expected_qualities(q)) /\ words > 30
                THEN 15 ELSE 0)
             + (IF /\ InList("examples", expected_qualities(q))
                   /\ AnyIn(<<"example", "such as", "like", "for instance">>,
                            answer_lower)
                THEN 10 ELSE 0)
             + (IF SentenceParts(answer) >= 3 THEN 10 ELSE 0)
             - (IF words < 20 /\ topic(q) # "not_in_dataset" THEN 20 ELSE 0)
             + (IF words > 100 THEN 5 ELSE 0)
  IN Clamp(adjusted)

\* the entry _evaluate_single_prompt records for one answer
AnswerMetrics(answer, q) ==
  [query |-> q,
   word_count |-> WordCount(answer),
   has_unknown_admission |-> AnyIn(ReportedAdmissions, lower(answer)),
   quality_score |-> _score_answer(answer, q)]

ScoreAnswer ==
  /\ NotRun
  /\ \E answer \in AnswerPool, q \in ScoringQueries :
       last' = [op |-> "_score_answer", answer |-> answer, query |-> q,
                result |-> AnswerMetrics(answer, q)]
  /\ UNCHANGED <<coll, vector_store, qa_chain, dataDir, world, feedback_file, storages>>

\* average quality scores a template can end with, in tenths
AverageScores == {Ratio(20, 1), Ratio(145, 2), Ratio(75, 1), Ratio(100, 1)}

\* the loop of select_best_prompt
RECURSIVE BestPromptFrom(_, _, _, _)
BestPromptFrom(prompt_evaluations, i, best_prompt, best_score) ==
  IF i > Len(prompt_evaluations)
  THEN [best_prompt |-> best_prompt, best_score |-> best_score]
  ELSE LET score == prompt_evaluations[i].average_quality_score
       IN IF Greater(score, best_score)
          THEN BestPromptFrom(prompt_evaluations, i + 1,
                              prompt_evaluations[i].prompt_key, score)
          ELSE BestPromptFrom(prompt_evaluations, i + 1, best_prompt, best_score)

\* best_prompt["prompt_name"] with best_prompt None is a TypeError
select_best_prompt(prompt_evaluations) ==
  LET best == BestPromptFrom(prompt_evaluations, 1, None, Ratio(-1, 1))
  IN IF best.best_prompt = None
     THEN [outcome |-> "raised", exc |-> "TypeError"]
     ELSE [outcome |-> "returned", exc |-> None,
           best_prompt_key |-> best.best_prompt,
           best_score |-> best.best_score]

SelectBestPrompt ==
  /\ NotRun
  /\ \E n \in 0..Len(PROMPTS) :
       \E scores \in [1..n -> AverageScores] :
         LET prompt_evaluations ==
               [i \in 1..n |-> [prompt_key |-> PROMPTS[i],
                                average_quality_score |-> scores[i]]]
         IN last' = [op |-> "select_best_prompt",
                     prompt_evaluations |-> prompt_evaluations,
                     result |-> select_best_prompt(prompt_evaluations)]
  /\ UNCHANGED <<coll, vector_store, qa_chain, dataDir, world, feedback_file, storages>>

NextAnswerScoring ==
  \/ ScoreAnswer
  \/ SelectBestPrompt

SpecAnswerScoring == InitScoring /\ [][NextAnswerScoring]_vars

----------------------------------------------------------------------------
(* DocumentProcessor: process_document and process_directory, as functions  *)
(* of the files found.  A directory entry is a record: its name, whether it *)
(* is a regular file, the text an extraction of it yields and whether the   *)
(* extraction fails.                                                        *)

Entry(name, isfile, text, fails) ==
  [name |-> name, isfile |-> isfile, text |-> text, fails |-> fails]

EntryPool ==
  {Entry("a.txt", TRUE, "abcdefgh", FALSE),
   Entry("b.PDF", TRUE, "abc", FALSE),
   Entry("c.md", TRUE, "abc", FALSE),
   Entry("d.txt", TRUE, " \n ", FALSE),
   Entry("e.pdf", TRUE, "abc", TRUE),
   Entry("f.txt", TRUE, "abcde", TRUE),
   Entry("old.txt", FALSE, "", FALSE),
   Entry("notes", TRUE, "abc", FALSE)}

\* os.path.splitext(path)[1]: from the last dot of the last component, if
\* that dot is not its first character
LastIndexOf(ch, s) ==
  LET at == {i \in 1..Len(s) : SubSeq(s, i, i) = ch}
  IN IF at = {} THEN 0 ELSE CHOOSE i \in at : \A j \in at : j <= i

basename(path) == SubSeq(path, LastIndexOf("/", path) + 1, Len(path))

splitext(path) ==
  LET name == basename(path)
      dot == LastIndexOf(".", name)
  IN IF dot <= 1 THEN "" ELSE SubSeq(name, dot, Len(name))

\* `not text.strip()`
IsBlank(text) ==
  \A i \in 1..Len(text) : SubSeq(text, i, i) \in {" ", "\n", "\t"}

\* extract_text_from_pdf: the page's text and a newline, "" on any failure
\* (the modelled files have one page)
extract_text_from_pdf_Unguarded(e) == e.text \o "\n"

extract_text_from_pdf(e) ==
  IF e.fails THEN "" ELSE IF IsBlank(e.text) THEN "" ELSE e.text \o "\n"

\* extract_text_from_txt: the file's content, "" on any failure
extract_text_from_txt(e) == IF e.fails THEN "" ELSE e.text

\* RecursiveCharacterTextSplitter(chunk_size, chunk_overlap, separators):
\* the separators are kept at the head of the piece that follows them, and
\* every emitted chunk is stripped of surrounding whitespace
separators_NoEmpty == <<"\n\n", "\n", ". ", " ">>

separators == <<"\n\n", "\n", ". ", " ", "">>

Whitespace == {" ", "\n", "\t"}

\* the first position >= from at which sep occurs in text, 0 if none
FirstAt(text, sep, from) ==
  LET at == {i \in from..(Len(text) - Len(sep) + 1) :
               SubSeq(text, i, i + Len(sep) - 1) = sep}
  IN IF at = {} THEN 0 ELSE CHOOSE i \in at : \A j \in at : i <= j

\* re.split with the separator captured, each separator joined to the piece
\* after it; from skips the separator the text starts with
RECURSIVE Pieces(_, _, _)
Pieces(text, sep, from) ==
  LET j == FirstAt(text, sep, from)
  IN IF j = 0 THEN <<text>>
     ELSE <<SubSeq(text, 1, j - 1)>>
          \o Pieces(SubSeq(text, j, Len(text)), sep, Len(sep) + 1)

\* _split_text_with_regex: list(text) for the empty separator; empty pieces
\* are dropped
SplitOn(text, sep) ==
  IF sep = "" THEN [i \in 1..Len(text) |-> SubSeq(text, i, i)]
  ELSE SelectSeq(Pieces(text, sep, 1), LAMBDA x : x # "")

\* text.strip()
Strip(text) ==
  LET solid == {i \in 1..Len(text) : SubSeq(text, i, i) \notin Whitespace}
  IN IF solid = {} THEN ""
     ELSE SubSeq(text, CHOOSE i \in solid : \A j \in solid : i <= j,
                 CHOOSE i \in solid : \A j \in solid : j <= i)

RECURSIVE Concat(_)
Concat(parts) == IF parts = <<>> THEN "" ELSE Head(parts) \o Concat(Tail(parts))

RECURSIVE TotalLen(_)
TotalLen(parts) == IF parts = <<>> THEN 0 ELSE Len(Head(parts)) + TotalLen(Tail(parts))

\* _join_docs: the joined, stripped text, dropped when nothing is left
Emit(docs, current_doc) ==
  IF Strip(Concat(current_doc)) = "" THEN docs
  ELSE Append(docs, Strip(Concat(current_doc)))

\* the while loop of _merge_splits: pieces leave the window from the front
\* until what remains is within the overlap and the next piece fits
RECURSIVE Shrink(_, _, _, _)
Shrink(current_doc, len, size, overlap) ==
  LET total == TotalLen(current_doc)
  IN IF total > overlap \/ (total + len > size /\ total > 0)
     THEN Shrink(Tail(current_doc), len, size, overlap)
     ELSE current_doc

\* _merge_splits with the kept separators (the joining separator is "")
RECURSIVE MergeFrom(_, _, _, _, _, _)
MergeFrom(splits, i, docs, current_doc, size, overlap) ==
  IF i > Len(splits) THEN Emit(docs, current_doc)
  ELSE LET d == splits[i]
           over == TotalLen(current_doc) + Len(d) > size
       IN IF over /\ current_doc # <<>>
          THEN MergeFrom(splits, i + 1, Emit(docs, current_doc),
                         Append(Shrink(current_doc, Len(d), size, overlap), d),
                         size, overlap)
          ELSE MergeFrom(splits, i + 1, docs, Append(current_doc, d), size,
                         overlap)

_merge_splits(splits, size, overlap) == MergeFrom(splits, 1, <<>>, <<>>, size, overlap)

\* the separator _split_text works with: the first of the list that is ""
\* or occurs in the text, the last one if there is none
SeparatorIndex(text, seps) ==
  LET found == {i \in DOMAIN seps : seps[i] = "" \/ FirstAt(text, seps[i], 1) # 0}
  IN IF found = {} THEN 0 ELSE CHOOSE i \in found : \A j \in found : i <= j

\* _split_text: pieces shorter than chunk_size are merged; a longer piece is
\* split with the separators that remain, and emitted whole if none remain
RECURSIVE SplitText(_, _, _, _)
RECURSIVE SplitFrom(_, _, _, _, _, _, _)
SplitFrom(splits, i, final_chunks, good_splits, new_separators, size, overlap) ==
  IF i > Len(splits)
  THEN final_chunks \o _merge_splits(good_splits, size, overlap)
  ELSE LET piece == splits[i]
       IN IF Len(piece) < size
          THEN SplitFrom(splits, i + 1, final_chunks, Append(good_splits, piece),
                         new_separators, size, overlap)
          ELSE SplitFrom(splits, i + 1,
                         final_chunks \o _merge_splits(good_splits, size, overlap)
                           \o (IF new_separators = <<>> THEN <<piece>>
                               ELSE SplitText(piece, new_separators, size, overlap)),
                         <<>>, new_separators, size, overlap)

SplitText(text, seps, size, overlap) ==
  LET k == SeparatorIndex(text, seps)
      separator == IF k = 0 THEN seps[Len(seps)] ELSE seps[k]
      new_separators == IF k = 0 \/ seps[k] = "" THEN <<>>
                        ELSE SubSeq(seps, k + 1, Len(seps))
  IN SplitFrom(SplitOn(text, separator), 1, <<>>, <<>>, new_separators, size,
               overlap)

\* self.text_splitter.split_text(text)
split_text(text) == SplitText(text, separators, chunk_size, chunk_overlap)

\* Document(page_content=chunk, metadata=...) for the i-th chunk, which
\* enumerate numbers i - 1
ChunkDocument_OneBased(chunks, i, source, file_ext) ==
  [page_content |-> chunks[i],
   metadata |-> [source |-> source, chunk_id |-> i,
                 total_chunks |-> Len(chunks), file_type |-> file_ext]]

ChunkDocument(chunks, i, source, file_ext) ==
  [page_content |-> chunks[i],
   metadata |-> [source |-> source, chunk_id |-> i - 1,
                 total_chunks |-> Len(chunks), file_type |-> file_ext]]

process_document(file_path, e, source_name) ==
  LET source == IF source_name = None THEN basename(file_path) ELSE source_name
      file_ext == lower(splitext(file_path))
      text == IF file_ext = ".pdf" THEN extract_text_from_pdf(e)
              ELSE extract_text_from_txt(e)
      chunks == split_text(text)
  IN IF file_ext \notin {".pdf", ".txt"} THEN <<>>
     ELSE IF IsBlank(text) THEN <<>>
     ELSE [i \in 1..Len(chunks) |-> ChunkDocument(chunks, i, source, file_ext)]

\* the loop of process_directory over os.listdir(directory_path)
RECURSIVE ProcessEntries(_, _, _, _)
ProcessEntries(directory_path, entries, i, all_documents) ==
  IF i > Len(entries) THEN all_documents
  ELSE LET e == entries[i]
           file_path == directory_path \o "/" \o e.name
           supported == lower(splitext(e.name)) \in {".pdf", ".txt"}
       IN ProcessEntries(directory_path, entries, i + 1,
                         IF e.isfile /\ supported
                         THEN all_documents
                              \o process_document(file_path, e, e.name)
                         ELSE all_documents)

\* a directory is missing or holds entries
MissingDirectory == [exists |-> FALSE, entries |-> <<>>]
Directory(entries) == [exists |-> TRUE, entries |-> entries]

process_directory(directory_path, dir) ==
  IF ~dir.exists THEN <<>>
  ELSE ProcessEntries(directory_path, dir.entries, 1, <<>>)

ProcessDocument ==
  /\ NotRun
  /\ \E e \in {x \in EntryPool : x.isfile},
        source_name \in {None, "upload.txt"} :
       last' = [op |-> "process_document", file |-> e,
                source_name |-> source_name, outcome |-> "returned",
                result |-> process_document("uploads/" \o e.name, e, source_name)]
  /\ UNCHANGED <<coll, vector_store, qa_chain, dataDir, world, feedback_file, storages>>

ProcessDirectory ==
  /\ NotRun
  /\ \E dir \in {MissingDirectory}
                \cup {Directory(es) : es \in SeqUpTo(EntryPool, MaxFiles)} :
       last' = [op |-> "process_directory", dir |-> dir, outcome |-> "returned",
                result |-> process_directory("data", dir)]
  /\ UNCHANGED <<coll, vector_store, qa_chain, dataDir, world, feedback_file, storages>>

NextIngest ==
  \/ ProcessDocument
  \/ ProcessDirectory

SpecIngest == InitScoring /\ [][NextIngest]_vars

MaxText == 5        \* longest text given to a splitter
MaxChunk == 3       \* largest chunk_size of an enumerated configuration

TextAlphabet == {"a", " ", "\n", "."}

RECURSIVE TextsOf(_)
TextsOf(n) ==
  IF n = 0 THEN {""}
  ELSE LET shorter == TextsOf(n - 1)
       IN shorter \cup {t \o c : t \in {x \in shorter : Len(x) = n - 1},
                                 c \in TextAlphabet}

\* DocumentProcessor(chunk_size, chunk_overlap): the configurations with
\* 0 <= chunk_overlap < chunk_size
Configurations ==
  {cfg \in [chunk_size : 1..MaxChunk, chunk_overlap : 0..(MaxChunk - 1)] :
     cfg.chunk_overlap < cfg.chunk_size}

\* self.text_splitter.split_text(text) of a DocumentProcessor(cfg)
SplitTextCall ==
  /\ NotRun
  /\ \E text \in TextsOf(MaxText), cfg \in Configurations :
       last' = [op |-> "split_text", text |-> text, cfg |-> cfg,
                outcome |-> "returned",
                result |-> SplitText(text, separators, cfg.chunk_size,
                                     cfg.chunk_overlap)]
  /\ UNCHANGED <<coll, vector_store, qa_chain, dataDir, world, feedback_file,
                 storages>>

NextChunking == SplitTextCall \/ ProcessDocument

SpecChunking == InitScoring /\ [][NextChunking]_vars

----------------------------------------------------------------------------
(* FeedbackStorage: the telemetry file and the calls that read and append   *)
(* to it.  A call returns [raised, exc, file, result]: file is the content  *)
(* of the file after the call.                                              *)

MaxEntries == 2     \* most entries of one kind the file holds

ANSWER_PREVIEW_LEN == 200

TelemetryQuestions == {"What is an algorithm?"}
TelemetryAnswers == {"A finite procedure", Repeat("step ", 41)}
FeedbackTypes == {"positive", "negative"}
SourceCounts == {3}
ResponseTimes == {1, 2}
Timestamps == {"2025-01-01T00:00:00"}

\* answer[:200] + "..." if len(answer) > 200 else answer
answer_preview(answer) ==
  IF Len(answer) > ANSWER_PREVIEW_LEN
  THEN SubSeq(answer, 1, ANSWER_PREVIEW_LEN) \o "..."
  ELSE answer

feedback_entry(now, question, answer, feedback_type, sources_count, comment) ==
  [timestamp |-> now, question |-> question,
   answer_preview |-> answer_preview(answer), feedback |-> feedback_type,
   sources_count |-> sources_count, comment |-> comment,
   answer_length |-> WordCount(answer)]

interaction_entry(now, question, answer_length, sources_count, response_time) ==
  [timestamp |-> now, question |-> question,
   question_length |-> WordCount(question), answer_length |-> answer_length,
   sources_count |-> sources_count, response_time_seconds |-> response_time]

FeedbackEntries ==
  {feedback_entry(now, q, a, t, n, None) :
     now \in Timestamps, q \in TelemetryQuestions, a \in TelemetryAnswers,
     t \in FeedbackTypes, n \in SourceCounts}

InteractionEntries ==
  {interaction_entry(now, q, 3, n, rt) :
     now \in Timestamps, q \in TelemetryQuestions, n \in SourceCounts,
     rt \in ResponseTimes}

\* _ensure_file_exists: a missing file is created as the empty store
_ensure_file_exists(file) == IF file.kind = "missing" THEN EmptyStore ELSE file

\* _load_data: only a missing file and text that is not JSON give the empty
\* store; any JSON value is returned as it was parsed
_load_data(file) ==
  IF file.kind \in {"missing", "invalid"} THEN EmptyStore ELSE file

\* _save_data: json.dump(data, f, indent=2) over the truncated file
_save_data(data) == data

\* data[key]: a JSON array cannot be indexed by a string, an object only by
\* a key it has
Subscript(data, key) ==
  IF data.kind # "object" THEN "TypeError"
  ELSE IF key \notin data.has THEN "KeyError"
  ELSE ""

\* data[key].append(entry)
AppendFirst(data, key, entry) ==
  IF key = "feedback"
  THEN [data EXCEPT !.feedback = <<entry>> \o @]
  ELSE [data EXCEPT !.interactions = <<entry>> \o @]

AppendEntry(data, key, entry) ==
  IF key = "feedback"
  THEN [data EXCEPT !.feedback = Append(@, entry)]
  ELSE [data EXCEPT !.interactions = Append(@, entry)]

\* the body shared by add_feedback and add_interaction: load, append, save
AddEntry(file, key, entry) ==
  LET data == _load_data(file)
      exc == Subscript(data, key)
  IN IF exc # ""
     THEN [raised |-> TRUE, exc |-> exc, file |-> file]
     ELSE [raised |-> FALSE, exc |-> "",
           file |-> _save_data(AppendEntry(data, key, entry))]

add_feedback(file, now, question, answer, feedback_type, sources_count, comment) ==
  AddEntry(file, "feedback",
           feedback_entry(now, question, answer, feedback_type, sources_count,
                          comment))

add_interaction(file, now, question, answer_length, sources_count, response_time) ==
  AddEntry(file, "interactions",
           interaction_entry(now, question, answer_length, sources_count,
                             response_time))

\* data.get(key, []): a JSON array has no method get
GetList(file, key) ==
  LET data == _load_data(file)
  IN IF data.kind # "object"
     THEN [raised |-> TRUE, exc |-> "AttributeError", file |-> file]
     ELSE [raised |-> FALSE, exc |-> "", file |-> file,
           result |-> IF key \notin data.has THEN <<>>
                      ELSE IF key = "feedback" THEN data.feedback
                      ELSE data.interactions]

get_all_feedback(file) == GetList(file, "feedback")

get_all_interactions(file) == GetList(file, "interactions")

CountOf(seq, t) == Cardinality({i \in DOMAIN seq : seq[i].feedback = t})

get_feedback_stats(file) ==
  LET r == get_all_feedback(file)
  IN IF r.raised THEN r
     ELSE LET feedback == r.result
              total == Len(feedback)
              positive == CountOf(feedback, "positive")
              negative == CountOf(feedback, "negative")
          IN [r EXCEPT !.result =
                IF feedback = <<>>
                THEN [total_feedback |-> 0, positive_count |-> 0,
                      negative_count |-> 0, positive_percentage |-> Zero,
                      negative_percentage |-> Zero]
                ELSE [total_feedback |-> total, positive_count |-> positive,
                      negative_count |-> negative,
                      positive_percentage |-> Ratio(positive * 100, total),
                      negative_percentage |-> Ratio(negative * 100, total)]]

\* max(...), min(...)
Maximum(seq) == CHOOSE x \in Range(seq) : \A y \in Range(seq) : x >= y

Minimum(seq) == CHOOSE x \in Range(seq) : \A y \in Range(seq) : x <= y

get_interaction_stats(file) ==
  LET r == get_all_interactions(file)
  IN IF r.raised THEN r
     ELSE LET interactions == r.result
              total == Len(interactions)
              times == [i \in 1..total |-> interactions[i].response_time_seconds]
              lengths == [i \in 1..total |-> interactions[i].answer_length]
              counts == [i \in 1..total |-> interactions[i].sources_count]
          IN [r EXCEPT !.result =
                IF interactions = <<>>
                THEN [total_queries |-> 0, avg_response_time |-> Zero,
                      avg_answer_length |-> Zero, avg_sources_count |-> Zero]
                ELSE [total_queries |-> total,
                      avg_response_time |-> Ratio(SumOver(times, total), total),
                      avg_answer_length |-> Ratio(SumOver(lengths, total), total),
                      avg_sources_count |-> Ratio(SumOver(counts, total), total),
                      max_response_time |-> Maximum(times),
                      min_response_time |-> Minimum(times)]]

\* The contents a FeedbackStorage can find in its file after construction
StoredFeedback == SeqUpTo(FeedbackEntries, 1)
StoredInteractions == SeqUpTo(InteractionEntries, 1)

StartFiles ==
  {NotJSON, JSONArray}
  \cup {JSONObject(has,
                   IF "feedback" \in has THEN fb ELSE <<>>,
                   IF "interactions" \in has THEN ia ELSE <<>>) :
          has \in SUBSET {"feedback", "interactions"},
          fb \in StoredFeedback, ia \in StoredInteractions}

HasRoom(file, key) ==
  LET data == _load_data(file)
  IN IF key = "feedback" THEN Len(data.feedback) < MaxEntries
     ELSE Len(data.interactions) < MaxEntries

Called(op, args, r) ==
  [op |-> op, args |-> args, file |-> feedback_file, raised |-> r.raised,
   exc |-> r.exc,
   result |-> IF "result" \in DOMAIN r THEN r.result ELSE None]

AddFeedback ==
  /\ HasRoom(feedback_file, "feedback")
  /\ \E now \in Timestamps, question \in TelemetryQuestions,
        answer \in TelemetryAnswers, feedback_type \in FeedbackTypes,
        sources_count \in SourceCounts :
       LET r == add_feedback(feedback_file, now, question, answer,
                             feedback_type, sources_count, None)
       IN /\ feedback_file' = r.file
          /\ last' = Called("add_feedback",
                            feedback_entry(now, question, answer, feedback_type,
                                           sources_count, None), r)
  /\ UNCHANGED <<coll, vector_store, qa_chain, dataDir, world, storages>>

AddInteraction ==
  /\ HasRoom(feedback_file, "interactions")
  /\ \E now \in Timestamps, question \in TelemetryQuestions,
        sources_count \in SourceCounts, response_time \in ResponseTimes :
       LET r == add_interaction(feedback_file, now, question, 3, sources_count,
                                response_time)
       IN /\ feedback_file' = r.file
          /\ last' = Called("add_interaction",
                            interaction_entry(now, question, 3, sources_count,
                                              response_time), r)
  /\ UNCHANGED <<coll, vector_store, qa_chain, dataDir, world, storages>>

Read(op, r) ==
  /\ last' = Called(op, None, r)
  /\ UNCHANGED <<coll, vector_store, qa_chain, dataDir, world, feedback_file,
                 storages>>

GetAllFeedback == Read("get_all_feedback", get_all_feedback(feedback_file))

GetAllInteractions ==
  Read("get_all_interactions", get_all_interactions(feedback_file))

GetFeedbackStats == Read("get_feedback_stats", get_feedback_stats(feedback_file))

GetInteractionStats ==
  Read("get_interaction_stats", get_interaction_stats(feedback_file))

\* the file is removed from outside the program (the operator clears the
\* telemetry); the next call finds it missing
RemoveFile ==
  /\ feedback_file.kind # "missing"
  /\ feedback_file' = NoFile
  /\ last' = [op |-> "remove", args |-> None, file |-> feedback_file,
              raised |-> FALSE, exc |-> "", result |-> None]
  /\ UNCHANGED <<coll, vector_store, qa_chain, dataDir, world, storages>>

InitTelemetry ==
  /\ coll = Absent
  /\ vector_store = None
  /\ qa_chain = None
  /\ dataDir = <<>>
  /\ world = [indexFaults |-> FALSE, bulk |-> FALSE]
  /\ feedback_file \in {_ensure_file_exists(f) : f \in StartFiles \cup {NoFile}}
  /\ storages = Idle
  /\ last = [op |-> "__init__"]

NextTelemetry ==
  \/ AddFeedback
  \/ AddInteraction
  \/ GetAllFeedback
  \/ GetAllInteractions
  \/ GetFeedbackStats
  \/ GetInteractionStats
  \/ RemoveFile

SpecTelemetry == InitTelemetry /\ [][NextTelemetry]_vars

----------------------------------------------------------------------------
(* Several FeedbackStorage instances on one file (app.py keeps one per      *)
(* session, the dashboard its own).  A call to add_feedback or              *)
(* add_interaction is three steps on the file: _load_data reads it, open(.., *)
(* 'w') in _save_data truncates it, and closing it writes the dumped data.  *)

MaxCalls == 2       \* calls one instance completes

InstanceEntries ==
  [feedback : FeedbackEntries] \cup [interactions : InteractionEntries]

KeyOf(e) == IF "feedback" \in DOMAIN e THEN "feedback" ELSE "interactions"

\* data = self._load_data(); data[key].append(entry)
LoadStep(i) ==
  /\ storages[i].pc = "idle"
  /\ storages[i].completed < MaxCalls
  /\ \E e \in InstanceEntries :
       LET key == KeyOf(e)
           data == _load_data(feedback_file)
           exc == Subscript(data, key)
       IN /\ storages' =
               [storages EXCEPT ![i] =
                  IF exc # "" THEN @
                  ELSE [pc |-> "loaded", completed |-> @.completed,
                        data |-> AppendEntry(data, key, e[key]),
                        beneath |-> 0]]
          /\ last' = [op |-> "load", instance |-> i, raised |-> exc # ""]
  /\ UNCHANGED <<coll, vector_store, qa_chain, dataDir, world, feedback_file>>

\* with open(self.feedback_file, 'w') as f: the file is empty until f is closed
TruncateStep(i) ==
  /\ storages[i].pc = "loaded"
  /\ feedback_file' = NotJSON
  /\ storages' = [storages EXCEPT ![i].pc = "writing"]
  /\ last' = [op |-> "truncate", instance |-> i, raised |-> FALSE]
  /\ UNCHANGED <<coll, vector_store, qa_chain, dataDir, world>>

\* the length of the dumped text, in entries (an empty store is not empty text)
TextSize(data) == Len(data.feedback) + Len(data.interactions) + 1

\* json.dump(data, f, indent=2) and the close of f: the buffered text is
\* written from offset 0.  beneath is the size of what another instance has
\* written since this one opened the file: when this instance's text is not
\* longer, the tail of the other text may remain after it, and the file is
\* not JSON.
WriteStep(i) ==
  /\ storages[i].pc = "writing"
  /\ feedback_file' \in
       {_save_data(storages[i].data)}
       \cup (IF TextSize(storages[i].data) <= storages[i].beneath
             THEN {NotJSON} ELSE {})
  /\ storages' =
       [j \in Instances |->
          IF j = i
          THEN [pc |-> "idle", completed |-> storages[i].completed + 1]
          ELSE IF storages[j].pc = "writing"
               THEN [storages[j] EXCEPT !.beneath = TextSize(storages[i].data)]
               ELSE storages[j]]
  /\ last' = [op |-> "write", instance |-> i, raised |-> FALSE]
  /\ UNCHANGED <<coll, vector_store, qa_chain, dataDir, world>>

NextSessions == \E i \in Instances : LoadStep(i) \/ TruncateStep(i) \/ WriteStep(i)

\* the instances are constructed on a file that does not exist yet
InitSessions ==
  /\ coll = Absent
  /\ vector_store = None
  /\ qa_chain = None
  /\ dataDir = <<>>
  /\ world = [indexFaults |-> FALSE, bulk |-> FALSE]
  /\ feedback_file = _ensure_file_exists(NoFile)
  /\ storages = Idle
  /\ last = [op |-> "__init__"]

SpecSessions == InitSessions /\ [][NextSessions]_vars

----------------------------------------------------------------------------
(* RAGPipelineGemini (rag_pipeline_gemini.py): the same lifecycle on a      *)
(* Chroma collection persisted in a directory.  Opening the collection      *)
(* creates it when it is missing; from_documents adds to the collection it  *)
(* finds.                                                                   *)

\* Chroma(persist_directory, embedding_function, collection_name)
OpenCollection(c) == IF c.exists THEN c ELSE Collection(<<>>)

Gemini_create_vector_store(c, documents, env) ==
  IF documents = <<>>
  THEN [raised |-> TRUE, exc |-> "ValueError", coll |-> c]
  ELSE IF env.createFail = "early"
  THEN [raised |-> TRUE, exc |-> "ProviderError", coll |-> c]
  ELSE IF env.createFail = "late"
  THEN [raised |-> TRUE, exc |-> "ProviderError", coll |-> OpenCollection(c)]
  ELSE [raised |-> FALSE, exc |-> None,
        coll |-> Upsert(OpenCollection(c), documents)]

Gemini_load_vector_store(c, env) ==
  IF env.loadFail THEN [vector_store |-> None, coll |-> c]
  ELSE [vector_store |-> "Chroma", coll |-> OpenCollection(c)]

Gemini_initialize_vector_store(vs, c, documents, force_recreate, env, dir) ==
  IF force_recreate
  THEN IF ~documents.given
       THEN [outcome |-> "raised", exc |-> "ValueError", vector_store |-> vs,
             coll |-> c]
       ELSE LET cr == Gemini_create_vector_store(c, documents.docs, env)
            IN IF cr.raised
               THEN [outcome |-> "raised", exc |-> cr.exc, vector_store |-> vs,
                     coll |-> cr.coll]
               ELSE [outcome |-> "True", exc |-> None, vector_store |-> "Chroma",
                     coll |-> cr.coll]
  ELSE LET loaded == Gemini_load_vector_store(c, env)
       IN IF loaded.vector_store = None \/ documents.docs # <<>>
          THEN LET docs == IF documents.given THEN documents.docs ELSE dir
               IN IF docs # <<>>
                  THEN LET cr == Gemini_create_vector_store(loaded.coll, docs, env)
                       IN IF cr.raised
                          THEN [outcome |-> "raised", exc |-> cr.exc,
                                vector_store |-> loaded.vector_store,
                                coll |-> cr.coll]
                          ELSE [outcome |-> "True", exc |-> None,
                                vector_store |-> "Chroma", coll |-> cr.coll]
                  ELSE [outcome |-> "False", exc |-> None,
                        vector_store |-> loaded.vector_store,
                        coll |-> loaded.coll]
          ELSE [outcome |-> "True", exc |-> None,
                vector_store |-> loaded.vector_store, coll |-> loaded.coll]

GeminiEnvs == {e \in StoreEnvs : ~e.delFail /\ ~e.infoFail}

GeminiInitializeVectorStore ==
  \E documents \in OptRecordLists, force_recreate \in BOOLEAN, env \in GeminiEnvs :
    LET r == Gemini_initialize_vector_store(vector_store, coll, documents,
                                            force_recreate, env, dataDir)
    IN /\ WithinBounds(r.coll)
       /\ coll' = r.coll
       /\ vector_store' = r.vector_store
       /\ last' = [op |-> "Gemini.initialize_vector_store",
                   documents |-> documents, force_recreate |-> force_recreate,
                   pre |-> coll, outcome |-> r.outcome, exc |-> r.exc]
       /\ UNCHANGED <<qa_chain, dataDir, world, feedback_file, storages>>

\* a pipeline constructed over whatever the persist directory holds
InitGemini ==
  /\ coll \in StartCollections
  /\ vector_store = None
  /\ qa_chain = None
  /\ dataDir \in DataDirs
  /\ world = [indexFaults |-> TRUE, bulk |-> FALSE]
  /\ feedback_file = EmptyStore
  /\ storages = Idle
  /\ last = [op |-> "__init__"]

NextGemini == GeminiInitializeVectorStore

SpecGemini == InitGemini /\ [][NextGemini]_vars

----------------------------------------------------------------------------
(* RAGEvaluator.run_evaluation on a pipeline in any state, with question    *)
(* records as load_test_questions yields them: a question, and optionally   *)
(* its expected keywords and its category.                                  *)

QuestionPool ==
  {[question |-> "What is an algorithm?",
    expected_keywords |-> <<"Procedure", "solve">>,
    category |-> "definitions"],
   [question |-> "What is Big O notation?", expected_keywords |-> <<>>,
    category |-> "complexity"],
   [question |-> "What is time complexity?"]}

EvaluatedCollections == {Absent, Collection(<<>>), Collection(<<doc1, doc2>>)}

RunEvaluation ==
  /\ NotRun
  /\ \E test_questions \in SeqUpTo(QuestionPool, MaxQuestions) :
       \E envs \in [1..Len(test_questions) -> BatchEnvs] :
         /\ qa_chain' =
              IF test_questions = <<>> THEN qa_chain
              ELSE evaluate_single_question(vector_store, qa_chain, coll,
                                            test_questions[1], envs[1]).qa_chain
         /\ last' = [op |-> "run_evaluation", pre |-> coll,
                     preStore |-> vector_store,
                     test_questions |-> test_questions,
                     failing |-> Failing(envs), outcome |-> "returned",
                     report |-> run_evaluation(vector_store, qa_chain, coll,
                                               test_questions, envs)]
  /\ UNCHANGED <<coll, vector_store, dataDir, world, feedback_file, storages>>

InitEvaluation ==
  /\ coll \in EvaluatedCollections
  /\ vector_store \in {None, "Qdrant"}
  /\ qa_chain \in {None, "bound", "stale"}
  /\ qa_chain = "bound" => vector_store = "Qdrant"
  /\ dataDir = <<>>
  /\ world = [indexFaults |-> FALSE, bulk |-> FALSE]
  /\ feedback_file = EmptyStore
  /\ storages = Idle
  /\ last = [op |-> "__init__"]

NextEvaluation == RunEvaluation

SpecEvaluation == InitEvaluation /\ [][NextEvaluation]_vars

----------------------------------------------------------------------------
(* A pipeline constructed over the index as an earlier run of the           *)
(* application left it (app.py builds a new RAGPipeline in every session):  *)
(* the collection is absent, empty or populated, the pipeline has no store  *)
(* yet, and the index service's administrative calls may fail.              *)

InitRestart ==
  /\ coll \in StartCollections
  /\ vector_store = None
  /\ qa_chain = None
  /\ dataDir \in DataDirs
  /\ world = [indexFaults |-> TRUE, bulk |-> FALSE]
  /\ feedback_file = EmptyStore
  /\ storages = Idle
  /\ last = [op |-> "__init__"]

NextRestart ==
  \/ InitializeVectorStore
  \/ AddDocuments

SpecRestart == InitRestart /\ [][NextRestart]_vars

----------------------------------------------------------------------------
(* Properties                                                               *)

IsInit == last.op = "initialize_vector_store"
IsAdd == last.op = "add_documents"
IsQuery == last.op = "query"
Populated(c) == c.exists /\ PointCount(c) >= 1

\* the records an initialize call has at hand: the list given, else the
\* default directory's
Available == IF last.documents.given THEN last.documents.docs ELSE dataDir

\* C1: initialize_vector_store without force_recreate on a collection that
\* exists with at least one point returns True and leaves the collection as
\* it was, records given or not; a second call changes nothing either, so two
\* calls leave the point count one call leaves.
C1_InitOnPopulatedIsNoOp ==
  /\ (IsInit /\ ~last.force_recreate /\ Populated(last.pre))
       => (last.outcome = "True" /\ coll = last.pre)
  /\ Populated(coll) =>
       \A documents \in OptRecordLists, env \in StoreEnvs :
         LET once == initialize_vector_store(vector_store, qa_chain, coll,
                                             documents, FALSE, env, dataDir)
             twice == initialize_vector_store(once.vector_store, once.qa_chain,
                                              once.coll, documents, FALSE, env,
                                              dataDir)
         IN /\ once.outcome = "True" /\ twice.outcome = "True"
            /\ PointCount(once.coll) = PointCount(coll)
            /\ PointCount(twice.coll) = PointCount(once.coll)

C1_Witness ==
  /\ IsInit /\ ~last.force_recreate /\ Populated(last.pre)
  /\ last.documents.given /\ last.documents.docs # <<>>
  /\ last.outcome = "True"

\* C2: once initialize_vector_store(records, force_recreate=True) has
\* returned, get_vector_store_stats reports len(records) points, whatever the
\* collection held before (nothing, no point, any points).
C2_ForceRecreateCount ==
  (IsInit /\ last.force_recreate /\ last.outcome = "True") =>
    LET stats == get_vector_store_stats(vector_store, coll, NoFault)
    IN /\ "total_documents" \in DOMAIN stats
       /\ stats.total_documents = Len(last.documents.docs)

C2_Witness ==
  /\ IsInit /\ last.force_recreate /\ last.outcome = "True"
  /\ Populated(last.pre)
  /\ PointCount(last.pre) # Len(last.documents.docs)

\* C3 (as claimed): query never raises, in any pipeline state, and its
\* result's answer is never empty.
C3_QueryTotal ==
  IsQuery => (last.outcome = "returned" /\ last.result.answer # "")

\* C4: when retrieval or generation fails inside query, the result carries
\* the error message as answer, no sources, no source documents, num_sources
\* 0 and the cause in error; when both succeed, the result has no error
\* field, num_sources is the length of sources, and sources lists the
\* retrieved chunks (the k nearest) nearest first.
C4_QueryResultShape ==
  (IsQuery /\ last.outcome = "returned") =>
    LET r == last.result
        rank == last.env.rank
    IN IF last.env.fail # "no" \/ ~last.pre.exists
       THEN /\ "error" \in DOMAIN r
            /\ last.pre.exists => r.error = last.env.cause
            /\ r.answer
                 = "An error occurred while processing your question: " \o r.error
            /\ r.sources = <<>>
            /\ r.source_documents = <<>>
            /\ r.num_sources = 0
       ELSE /\ "error" \notin DOMAIN r
            /\ r.answer = last.env.answer
            /\ r.num_sources = Len(r.sources)
            /\ Len(r.sources) = Len(r.source_documents)
            /\ Len(r.source_documents) = Min(RETRIEVAL_K, PointCount(last.pre))
            /\ \A i \in DOMAIN r.sources :
                 /\ r.sources[i].source = metadata(r.source_documents[i]).source
                 /\ r.sources[i].chunk_id
                      = metadata(r.source_documents[i]).chunk_id
                 /\ r.sources[i].content
                      = page_content(r.source_documents[i]) \o "..."
            /\ \A i, j \in DOMAIN r.source_documents :
                 i < j => rank[r.source_documents[i]] <= rank[r.source_documents[j]]

C4_Witness ==
  /\ IsQuery /\ last.outcome = "returned" /\ last.env.fail = "no"
  /\ Len(last.result.sources) = RETRIEVAL_K
  /\ last.result.sources[1] # last.result.sources[RETRIEVAL_K]

\* C5: initialize_vector_store without force_recreate, on a collection that
\* exists but holds no point, goes on to create from the records given (or
\* the default directory's): a True return leaves exactly those records in
\* the collection, at least one; it returns False only with no record at hand.
C5_ZeroPointsFallsThrough ==
  (IsInit /\ ~last.force_recreate /\ last.pre.exists /\ PointCount(last.pre) = 0)
    => /\ last.outcome = "True" =>
            (coll = Collection(Available) /\ PointCount(coll) >= 1
             /\ vector_store = "Qdrant")
       /\ last.outcome = "False" => (Available = <<>> /\ coll = last.pre)

C5_Witness ==
  /\ IsInit /\ ~last.force_recreate
  /\ last.pre.exists /\ PointCount(last.pre) = 0
  /\ ~last.documents.given
  /\ last.outcome = "True"

\* C6 (as claimed): with no record at hand (none given and an empty default
\* directory, or an empty list given) initialize_vector_store returns False
\* and does not raise, force_recreate or not.
C6_NoRecordsReturnsFalse ==
  (IsInit /\ Available = <<>>) => last.outcome = "False"

\* C6 (amended): with no record at hand, the call without force_recreate never
\* raises and leaves the index as it was: it returns True when it loads a
\* collection that reports at least one point, False otherwise; with
\* force_recreate it raises ValueError, before touching the index when the
\* records are omitted, after dropping the collection when the list is empty.
C6_NoRecordsOutcome ==
  (IsInit /\ (Available = <<>> \/ (last.force_recreate /\ ~last.documents.given)))
    => IF last.force_recreate
       THEN /\ last.outcome = "raised" /\ last.exc = "ValueError"
            /\ ~last.documents.given => coll = last.pre
            /\ last.documents.given => coll = Absent
       ELSE /\ last.outcome = (IF Populated(last.pre) THEN "True" ELSE "False")
            /\ coll = last.pre
            /\ vector_store = (IF Populated(last.pre) THEN "Qdrant" ELSE None)

C6_Witness ==
  /\ IsInit /\ Available = <<>> /\ last.force_recreate
  /\ last.documents.given /\ Populated(last.pre)
  /\ last.outcome = "raised"

\* C7: add_documents on a pipeline with an active store, when it returns,
\* leaves every entry that was there in place and puts the records behind
\* them, all of them: the point count grows by len(records), and records that
\* are in the collection already are stored a second time.
C7_AddAppends ==
  (IsAdd /\ last.preStore # None /\ last.outcome = "returned") =>
    /\ coll.exists
    /\ coll.points = last.pre.points \o last.documents
    /\ PointCount(coll) = PointCount(last.pre) + Len(last.documents)

C7_Witness ==
  /\ IsAdd /\ last.preStore # None /\ last.outcome = "returned"
  /\ last.documents # <<>>
  /\ last.pre.points = last.documents
  /\ coll.points = last.documents \o last.documents

\* C8 (as claimed): no call hands the embedding provider more chunks than
\* the batch limit: a longer record list goes out in batches of at most
\* batch_size, or the call fails with BatchSizeExceeded.
C8_BatchesWithinLimit ==
  (IsInit \/ IsAdd) =>
    \/ \A i \in DOMAIN last.sent : last.sent[i] <= batch_size
    \/ last.outcome = "raised" /\ last.exc = "BatchSizeExceeded"

\* the batches of one harness run, each as the list of its entries
Batches ==
  IF last.op = "simple_evaluation" THEN <<last.evaluation.results>>
  ELSE IF last.op = "evaluation.main"
  THEN IF "detailed_results" \in DOMAIN last.report
       THEN <<last.report.detailed_results>> ELSE <<>>
  ELSE IF last.op = "retrieval_evaluation.main"
  THEN [a \in DOMAIN last.approaches |-> last.approaches[a].query_results]
  ELSE IF last.op = "llm_evaluation.main"
  THEN [p \in DOMAIN last.prompt_evaluations |->
          last.prompt_evaluations[p].query_results]
  ELSE <<>>

Harnesses ==
  {"simple_evaluation", "evaluation.main", "retrieval_evaluation.main",
   "llm_evaluation.main"}

\* C9 (as claimed): in a harness batch a retrieval or generation failure on
\* one question does not end the batch: every batch of the run is there and
\* holds one entry per question.
C9_FailureDoesNotAbort ==
  (last.op \in Harnesses /\ last.failing # {}) =>
    /\ Batches # <<>>
    /\ \A b \in DOMAIN Batches : Len(Batches[b]) = Len(last.test_questions)

HarnessMains ==
  {"evaluation.main", "retrieval_evaluation.main", "llm_evaluation.main"}

\* C10 (as claimed): no harness run changes the index, whatever the
\* collection was at its start (absent, empty or populated).
C10_HarnessReadOnly ==
  last.op \in HarnessMains => coll = last.pre

\* C10 (amended): retrieval evaluation and prompt evaluation never change the
\* index; evaluation.py main leaves a collection it loads with at least one
\* point unchanged, and when the collection is absent or holds no point it
\* creates it from the default directory's records: the run goes on to the
\* evaluation only with those records stored.
C10_HarnessIndexEffect ==
  /\ last.op \in {"retrieval_evaluation.main", "llm_evaluation.main"}
       => coll = last.pre
  /\ last.op = "evaluation.main" =>
       /\ Populated(last.pre) => (coll = last.pre /\ last.saved)
       /\ (~Populated(last.pre) /\ last.saved)
            => (dataDir # <<>> /\ coll = Collection(dataDir))
       /\ (~Populated(last.pre) /\ dataDir = <<>>)
            => (coll = last.pre /\ ~last.saved)

C10_Witness ==
  /\ last.op = "evaluation.main" /\ last.saved
  /\ ~last.pre.exists
  /\ PointCount(coll) = Len(dataDir) /\ PointCount(coll) >= 1

\* C11: load_vector_store returns, whatever the index service does: None when
\* the collection is absent or the service call fails, a store handle when the
\* collection exists; it leaves the index and the pipeline's active store as
\* they were.
C11_LoadIsTotalAndReadOnly ==
  last.op = "RAGPipeline.load_vector_store" =>
    /\ last.outcome = "returned"
    /\ last.result = (IF last.pre.exists /\ ~last.loadFail THEN "Qdrant" ELSE None)
    /\ coll = last.pre
    /\ vector_store = last.preStore

C11_Witness ==
  /\ last.op = "RAGPipeline.load_vector_store"
  /\ last.pre.exists /\ last.loadFail /\ last.preStore = "Qdrant"
  /\ last.result = None /\ vector_store = "Qdrant"

\* C12: get_vector_store_stats returns, whatever the index service does: the
\* status-only record "No vector store initialized" with no active store, a
\* status-only record with an error status when the service call fails, and
\* otherwise the collection's name and its current point count.
C12_StatsIsTotal ==
  last.op = "get_vector_store_stats" =>
    /\ last.outcome = "returned"
    /\ IF vector_store = None
       THEN last.result = [status |-> "No vector store initialized"]
       ELSE IF last.infoFail \/ ~coll.exists
       THEN /\ DOMAIN last.result = {"status"}
            /\ last.result.status = "Error getting stats"
       ELSE /\ last.result.status = "Qdrant vector store active"
            /\ last.result.collection_name = COLLECTION_NAME
            /\ last.result.total_documents = PointCount(coll)

C12_Witness ==
  /\ last.op = "get_vector_store_stats"
  /\ vector_store # None /\ last.infoFail /\ Populated(coll)
  /\ last.result.status = "Error getting stats"

InUnit(x) == x.den > 0 /\ 0 <= x.num /\ x.num <= x.den

\* a chunk is relevant to a query iff its text, lowered, holds one of the
\* query's keywords, lowered
Relevant(doc, q) ==
  \E j \in DOMAIN expected_keywords(q) :
    Contains(lower(expected_keywords(q)[j]), lower(page_content(doc)))

\* C13: in retrieval evaluation a retrieved chunk counts as relevant iff it
\* holds one of the expected keywords, case ignored; per query precision is
\* relevant_count / retrieved_count (0 with nothing retrieved) and
\* relevant_count <= retrieved_count; per configuration overall_precision is
\* the sum of the relevant counts over the sum of the retrieved counts (0 with
\* nothing retrieved); every precision lies in [0,1].
C13_PrecisionDefinition ==
  last.op = "_evaluate_approach" =>
    LET qr == last.result.query_results
        om == last.result.overall_metrics
        n == Len(last.test_queries)
        rel == [i \in 1..n |->
                  Cardinality({d \in DOMAIN last.retrieved[i] :
                                 Relevant(last.retrieved[i][d],
                                          last.test_queries[i])})]
        ret == [i \in 1..n |-> Len(last.retrieved[i])]
    IN /\ Len(qr) = n
       /\ \A i \in 1..n :
            /\ qr[i].relevant_count = rel[i]
            /\ qr[i].retrieved_count = ret[i]
            /\ qr[i].relevant_count <= qr[i].retrieved_count
            /\ qr[i].precision
                 = (IF ret[i] = 0 THEN Ratio(0, 1) ELSE Ratio(rel[i], ret[i]))
            /\ InUnit(qr[i].precision)
       /\ om.overall_precision
            = (IF SumOver(ret, n) = 0 THEN Ratio(0, 1)
               ELSE Ratio(SumOver(rel, n), SumOver(ret, n)))
       /\ InUnit(om.overall_precision)

C13_Witness ==
  /\ last.op = "_evaluate_approach"
  /\ Len(last.test_queries) = 2
  /\ last.retrieved[1] = <<doc3, doc2>>
  /\ last.retrieved[2] = <<doc1>>
  /\ last.result.query_results[1].precision = Ratio(1, 2)
  /\ last.result.overall_metrics.overall_precision = Ratio(2, 3)

\* C14: select_best_approach returns the configuration whose combined score
\* 0.7 * overall_precision + 0.3 * avg_keyword_score is highest, the first in
\* evaluation order among those that share the highest score, and best_score
\* is the combined_score recorded on that configuration.
C14_BestApproachIsFirstMaximum ==
  (last.op = "select_best_approach" /\ last.approaches # <<>>) =>
    LET r == last.result
        score == [i \in DOMAIN last.approaches |->
                    CombinedScore(last.approaches[i].overall_metrics)]
    IN /\ r.outcome = "returned"
       /\ \E i \in DOMAIN last.approaches :
            /\ r.best_approach = last.approaches[i].name
            /\ \A j \in DOMAIN score : LessEq(score[j], score[i])
            /\ \A j \in 1..(i - 1) : ~LessEq(score[i], score[j])
            /\ r.approaches[i].combined_score = score[i]
            /\ r.best_score = r.approaches[i].combined_score

C14_Witness ==
  /\ last.op = "select_best_approach"
  /\ Len(last.approaches) = 4
  /\ last.approaches[1].overall_metrics.overall_precision = Ratio(0, 1)
  /\ last.approaches[1].overall_metrics.avg_keyword_score = Ratio(0, 1)
  /\ last.approaches[2].overall_metrics.avg_keyword_score = Ratio(5, 3)
  /\ last.approaches[3].overall_metrics.avg_keyword_score = Ratio(1, 2)
  /\ last.approaches[4].overall_metrics.avg_keyword_score = Ratio(5, 3)
  /\ last.result.best_approach = ApproachNames[2]

IsScore == last.op = "_score_answer"

\* algorithm or complexity terminology is among the qualities a query expects
ExpectsAlgorithmTerms(q) ==
  \/ InList_BySubstring("algorithm", expected_qualities(q))
  \/ InList_BySubstring("complexity", expected_qualities(q))

\* C15 (as claimed): for a query that is not out-of-corpus the score is the
\* clamp to [0,10] of 5, +2 if algorithm/complexity terminology is expected and
\* the answer holds such a term, +1.5 if a definition is expected and the
\* answer has more than 30 words, +1 if examples are expected and the answer
\* holds an example marker, +1 for several sentences, -2 for fewer than 20
\* words, +0.5 for more than 100 words; a query whose expected qualities name
\* an algorithm, as the built-in ones do, earns the +2.
C15_InCorpusScore ==
  (IsScore /\ topic(last.query) # "not_in_dataset") =>
    LET a == lower(last.answer)
        words == WordCount(last.answer)
        q == last.query
        raw == 50
               + (IF /\ ExpectsAlgorithmTerms(q)
                     /\ AnyIn(<<"algorithm", "complexity", "time">>, a)
                  THEN 20 ELSE 0)
               + (IF InList("definition", expected_qualities(q)) /\ words > 30
                  THEN 15 ELSE 0)
               + (IF /\ InList("examples", expected_qualities(q))
                     /\ AnyIn(<<"example", "such as", "like", "for instance">>, a)
                  THEN 10 ELSE 0)
               + (IF SentenceParts(last.answer) >= 3 THEN 10 ELSE 0)
               - (IF words < 20 THEN 20 ELSE 0)
               + (IF words > 100 THEN 5 ELSE 0)
    IN last.result.quality_score
         = (IF raw < 0 THEN 0 ELSE IF raw > 100 THEN 100 ELSE raw)

\* C16 (as claimed): for an out-of-corpus query the score is 10 when the
\* answer admits ignorance and 2 when it does not, nothing else adjusting it,
\* and the answer counts as an admission for the score exactly when it is
\* reported with has_unknown_admission.
C16_OutOfCorpusScore ==
  (IsScore /\ topic(last.query) = "not_in_dataset") =>
    /\ last.result.quality_score \in {100, 20}
    /\ last.result.quality_score = 100 <=> last.result.has_unknown_admission

\* C17: _score_answer returns a value in [0,10] that is a multiple of 0.5,
\* for every answer and query; select_best_prompt picks the template with the
\* highest average score, the first evaluated among those that share it.
C17_ScoreRangeAndBestPrompt ==
  /\ IsScore =>
       /\ last.result.quality_score \in 0..100
       /\ last.result.quality_score % 5 = 0
  /\ (last.op = "select_best_prompt" /\ last.prompt_evaluations # <<>>) =>
       LET pe == last.prompt_evaluations
       IN /\ last.result.outcome = "returned"
          /\ \E i \in DOMAIN pe :
               /\ last.result.best_prompt_key = pe[i].prompt_key
               /\ last.result.best_score = pe[i].average_quality_score
               /\ \A j \in DOMAIN pe :
                    LessEq(pe[j].average_quality_score,
                           pe[i].average_quality_score)
               /\ \A j \in 1..(i - 1) :
                    ~LessEq(pe[i].average_quality_score,
                            pe[j].average_quality_score)

C17_Witness ==
  /\ last.op = "select_best_prompt"
  /\ Len(last.prompt_evaluations) = 4
  /\ last.prompt_evaluations[1].average_quality_score = Ratio(145, 2)
  /\ last.prompt_evaluations[2].average_quality_score = Ratio(75, 1)
  /\ last.prompt_evaluations[3].average_quality_score = Ratio(20, 1)
  /\ last.prompt_evaluations[4].average_quality_score = Ratio(75, 1)
  /\ last.result.best_prompt_key = PROMPTS[2]

\* C18 (as claimed): simple_evaluation, here on a pipeline with an active
\* store, returns one result per question in input order; successful_queries
\* is the number of results with no error set, success_rate is
\* successful_queries / total_questions and average_sources_retrieved is the
\* sum of num_sources / total_questions, both 0 for the empty list.
C18_SimpleEvaluationMetrics ==
  (last.op = "simple_evaluation" /\ last.preStore # None) =>
    /\ last.outcome = "returned"
    /\ LET ev == last.evaluation
           n == Len(last.test_questions)
           unset == Cardinality({i \in DOMAIN ev.results :
                                   "error" \notin DOMAIN ev.results[i]})
           sources == SumOver([i \in 1..n |-> ev.results[i].num_sources], n)
       IN /\ Len(ev.results) = n
          /\ \A i \in 1..n : ev.results[i].question = last.test_questions[i]
          /\ ev.total_questions = n
          /\ ev.successful_queries = unset
          /\ ev.success_rate = (IF n = 0 THEN Ratio(0, 1) ELSE Ratio(unset, n))
          /\ ev.average_sources_retrieved
               = (IF n = 0 THEN Ratio(0, 1) ELSE Ratio(sources, n))

\* the records of one file are numbered 0, 1, ..., n-1 and each says n
DenselyNumbered(documents) ==
  \A i \in DOMAIN documents :
    /\ documents[i].metadata.chunk_id = i - 1
    /\ documents[i].metadata.total_chunks = Len(documents)
    /\ documents[i].metadata.chunk_id < documents[i].metadata.total_chunks

Supported(e) == lower(splitext(e.name)) \in {".pdf", ".txt"}

\* C19: process_document returns the empty sequence when the extension is
\* not supported or the extracted text is blank; otherwise its records carry
\* chunk_id 0, 1, ..., n-1 in order and total_chunks = n, the number of
\* records, so chunk_id < total_chunks on every record.
C19_ChunkNumbering ==
  last.op = "process_document" =>
    /\ last.outcome = "returned"
    /\ (~Supported(last.file) \/ last.file.fails \/ IsBlank(last.file.text))
         => last.result = <<>>
    /\ (Supported(last.file) /\ ~last.file.fails /\ ~IsBlank(last.file.text))
         => last.result # <<>>
    /\ DenselyNumbered(last.result)

C19_Witness ==
  /\ last.op = "process_document"
  /\ Len(last.result) = 3
  /\ last.result[3].metadata.chunk_id = 2
  /\ last.result[3].metadata.total_chunks = 3
  /\ last.result[1].metadata.source = "a.txt"

\* the records of the entries from the i-th on, each file's own
RECURSIVE PerFile(_, _)
PerFile(entries, i) ==
  IF i > Len(entries) THEN <<>>
  ELSE (IF /\ entries[i].isfile /\ Supported(entries[i])
           /\ ~entries[i].fails /\ ~IsBlank(entries[i].text)
        THEN process_document(entries[i].name, entries[i], entries[i].name)
        ELSE <<>>)
       \o PerFile(entries, i + 1)

\* C20: process_directory returns whatever one file does: the empty result
\* for a missing directory; otherwise the concatenation, in listing order, of
\* the records of the regular files with a supported extension whose
\* extraction yields text, each file's records numbered from 0 on their own;
\* other entries contribute nothing.
C20_DirectoryIsolatesFiles ==
  last.op = "process_directory" =>
    /\ last.outcome = "returned"
    /\ ~last.dir.exists => last.result = <<>>
    /\ last.result = PerFile(last.dir.entries, 1)
    /\ \A i \in DOMAIN last.result :
         LET m == last.result[i].metadata
         IN /\ m.chunk_id < m.total_chunks
            /\ m.chunk_id = 0 \/ (/\ i > 1
                                 /\ last.result[i - 1].metadata.source = m.source
                                 /\ last.result[i - 1].metadata.chunk_id
                                      = m.chunk_id - 1)

C20_Witness ==
  /\ last.op = "process_directory"
  /\ Len(last.dir.entries) = 2
  /\ last.dir.entries[1].name = "e.pdf"
  /\ last.dir.entries[2].name = "a.txt"
  /\ Len(last.result) = 3
  /\ last.result[1].metadata.chunk_id = 0
  /\ last.result[1].metadata.source = "a.txt"

IsTelemetryCall ==
  last.op \in {"add_feedback", "add_interaction", "get_all_feedback",
               "get_all_interactions", "get_feedback_stats",
               "get_interaction_stats"}

\* C21: whatever the telemetry file holds (missing, not JSON, JSON of any
\* shape), no read or append call of FeedbackStorage raises
C21_NoCallRaises == IsTelemetryCall => ~last.raised

IsAppend == last.op \in {"add_feedback", "add_interaction"} /\ ~last.raised

\* C22: the telemetry store is append-only: an add_feedback that returns
\* leaves every stored entry in place, puts its one entry at the end of the
\* feedback array and leaves the interactions array as it was; add_interaction
\* does the same with the two arrays exchanged
C22_AppendOnly ==
  /\ last.op = "add_feedback" /\ ~last.raised =>
       /\ feedback_file.feedback = Append(last.file.feedback, last.args)
       /\ feedback_file.interactions = last.file.interactions
  /\ last.op = "add_interaction" /\ ~last.raised =>
       /\ feedback_file.interactions = Append(last.file.interactions, last.args)
       /\ feedback_file.feedback = last.file.feedback

C22_Witness ==
  /\ IsAppend
  /\ last.file.feedback # <<>>
  /\ last.file.interactions # <<>>
  /\ Len(feedback_file.feedback) + Len(feedback_file.interactions) = 3

RECURSIVE SumCompleted(_)
SumCompleted(is) ==
  IF is = {} THEN 0
  ELSE LET i == CHOOSE x \in is : TRUE
       IN storages[i].completed + SumCompleted(is \ {i})

Quiescent == \A i \in Instances : storages[i].pc = "idle"

\* C30: with several FeedbackStorage instances adding to one file, no entry
\* is lost: once every call has completed, the file holds one more entry for
\* each completed call
C30_NoLostEntry ==
  Quiescent =>
    /\ feedback_file.kind = "object"
    /\ Len(feedback_file.feedback) + Len(feedback_file.interactions)
         = SumCompleted(Instances)

IsSplit == last.op = "split_text"

\* C23: for every text and every configuration with chunk_size > 0 and
\* 0 <= chunk_overlap < chunk_size, chunking returns, every chunk has at most
\* chunk_size characters, and the empty text gives no chunks
C23_ChunksWithinSize ==
  IsSplit =>
    /\ last.outcome = "returned"
    /\ \A i \in DOMAIN last.result : Len(last.result[i]) <= last.cfg.chunk_size
    /\ last.text = "" => last.result = <<>>

\* a word longer than chunk_size, after a separator, is cut into several chunks
C23_Witness ==
  /\ IsSplit
  /\ last.text = "a aaa"
  /\ last.cfg = [chunk_size |-> 2, chunk_overlap |-> 1]
  /\ last.result = <<"a", "a", "aa", "aa">>

IsGeminiInit ==
  /\ last.op = "Gemini.initialize_vector_store"
  /\ ~last.force_recreate
  /\ last.outcome # "raised"

\* C24: RAGPipelineGemini.initialize_vector_store without force_recreate
\* leaves a populated collection as it is, whether or not records are
\* supplied, and does not return True over a missing or zero-point collection
C24_GeminiInitIdempotent ==
  IsGeminiInit =>
    /\ Populated(last.pre) => coll = last.pre
    /\ ~Populated(last.pre) /\ last.outcome = "True" => Populated(coll)

IsRunEvaluation == last.op = "run_evaluation"

\* C25: run_evaluation on a non-empty question list returns one detailed
\* result per question in input order, each keyword_relevance within [0, 1];
\* successful_queries counts the results with success true; the category
\* counts add up to total_questions and the category success counts to
\* successful_queries.  On the empty list it returns the error record.
C25_RunEvaluationReport ==
  IsRunEvaluation =>
    /\ last.outcome = "returned"
    /\ IF last.test_questions = <<>>
       THEN last.report = [error |-> "No test questions available"]
       ELSE LET report == last.report
                results == report.detailed_results
                breakdown == report.category_breakdown
                cats == DOMAIN breakdown
                counts == [cat \in cats |-> breakdown[cat].count]
                successes == [cat \in cats |-> breakdown[cat].success]
                Total(f) ==
                  Cardinality({<<cat, k>> \in cats \X (1..Len(results)) :
                                 k <= f[cat]})
            IN /\ Len(results) = Len(last.test_questions)
               /\ report.total_questions = Len(last.test_questions)
               /\ \A i \in DOMAIN results :
                    /\ results[i].question = last.test_questions[i].question
                    /\ InUnit(results[i].keyword_relevance)
               /\ report.successful_queries
                    = Cardinality({i \in DOMAIN results : results[i].success})
               /\ Total(counts) = report.total_questions
               /\ Total(successes) = report.successful_queries

\* two questions of two categories, one answered and one failing
C25_Witness ==
  /\ IsRunEvaluation
  /\ Len(last.test_questions) = 2
  /\ Cardinality(DOMAIN last.report.category_breakdown) = 2
  /\ last.report.successful_queries = 1
  /\ \E i \in 1..2 :
       last.report.detailed_results[i].keyword_relevance = Ratio(1, 2)

\* C26: a query retrieves through the pipeline's active vector_store:
\* whenever qa_chain is set its retriever is the current vector_store, also
\* after initialize_vector_store has replaced vector_store
C26_ChainFollowsStore ==
  /\ qa_chain # None => qa_chain = "bound" /\ vector_store # None
  /\ IsQuery /\ last.outcome = "returned" => last.preChain # "stale"

\* C27: after add_documents(records) returns with a non-empty list, the
\* collection has grown by len(records), also when the pipeline had no active
\* store and the collection already existed and was populated
C27_AddedRecordsAreStored ==
  IsAdd /\ last.outcome = "returned" /\ last.documents # <<>> =>
    /\ coll.exists
    /\ PointCount(coll) = PointCount(last.pre) + Len(last.documents)

\* C28: initialize_vector_store returning True leaves vector_store set and
\* the collection with at least one point, also when calls to the index
\* service fail; returning False leaves vector_store None
C28_OutcomeMatchesStore ==
  IsInit =>
    /\ last.outcome = "True" => vector_store # None /\ Populated(coll)
    /\ last.outcome = "False" => vector_store = None

\* C29: when initialize_vector_store(records, force_recreate=True) raises,
\* the index is as it was before the call: the collection that existed is
\* still there with all its entries
C29_FailedRecreateKeepsIndex ==
  IsInit /\ last.force_recreate /\ last.outcome = "raised" /\ last.pre.exists =>
    coll = last.pre

====
